---- MODULE Spec2Model ----
(***************************************************************************)
(* go-ai: the agentic Chat loop and the ChatStream producer of the three   *)
(* backend adapters (openai, claude, ollama), modelled as one invocation   *)
(* running against a scripted backend.                                     *)
(*                                                                         *)
(* Text values (message content, tool results, error messages) are         *)
(* sequences of tokens, so that concatenation and prefixes are computed.   *)
(* Names, keys and roles are strings.                                      *)
(***************************************************************************)
EXTENDS Integers, Sequences, FiniteSets, TLC

(***************************************************************************)
(* Bounds of the model.                                                    *)
(***************************************************************************)
\* longest params.Messages list
MaxMsgs == 1
\* longest params.Tools list
MaxTools == 2
\* most tool calls in one assistant turn
MaxCalls == 2
\* largest explicit params.MaxAgenticLoops
MaxLoopsParam == 2
\* rounds in which the backend answers freely; afterwards it repeats its
\* last tool-call answer or answers without tool calls (a scripted server)
MaxScript == 1

(***************************************************************************)
(* Program constants.                                                      *)
(***************************************************************************)
defaultMaxAgenticLoops == 8

Backends == {"openai", "claude", "ollama"}

(***************************************************************************)
(* Strings of the model and strings.TrimSpace on them.                     *)
(***************************************************************************)
TrimSpace(s) ==
    CASE s = " " -> ""
      [] s = " k" -> "k"
      [] OTHER -> s

NoErr == [kind |-> "nil"]
NoResult == [kind |-> "nil"]
Err(kind, detail) == [kind |-> kind, detail |-> detail]

(***************************************************************************)
(* Inputs: adapter fields, messages, tools.                                *)
(***************************************************************************)
KeyValues == {" ", " k"}
ModelValues == {"", "m"}
EnvKeyValues == {"", "k"}

\* a user text message, and a text message whose role is blank
UserMsg == [type |-> "text", Role |-> "user", Content |-> <<"hi">>]
BlankRoleMsg == [type |-> "text", Role |-> " ", Content |-> <<"hi">>]
MsgValues == {UserMsg, BlankRoleMsg}

ToolNames == {"a", "b", " "}
ToolValues ==
    [kind : {"server"}, Name : ToolNames, Handler : {TRUE}]
        \cup {[kind |-> "server", Name |-> "a", Handler |-> FALSE]}
        \cup [kind : {"client"}, Name : ToolNames, Handler : {FALSE}]
        \cup {[kind |-> "nilptr", Name |-> "", Handler |-> FALSE]}

SeqsUpTo(S, n) == UNION {[1..k -> S] : k \in 0..n}
SeqsFromTo(S, m, n) == UNION {[1..k -> S] : k \in m..n}

NilParams == [isNil |-> TRUE]
ParamsValues(loops, outputs) ==
    [isNil : {FALSE},
     Messages : SeqsFromTo(MsgValues, 1, MaxMsgs),
     Tools : SeqsUpTo(ToolValues, MaxTools),
     MaxAgenticLoops : loops,
     Output : outputs]

(***************************************************************************)
(* Adapter.validate                                                        *)
(***************************************************************************)
\* openai and claude: the key (after the environment fallback) and the model
\* must be non-blank; ollama: only the model.  Returns the adapter as
\* validate leaves it and the error.
\* validation that does not look at the model name
validateNoModelCheck(b, a, envKey) ==
    LET resolved == IF TrimSpace(a.APIKey) = ""
                    THEN [a EXCEPT !.APIKey = envKey] ELSE a
    IN  IF b = "ollama"
        THEN [adapter |-> resolved, err |-> NoErr]
        ELSE IF TrimSpace(resolved.APIKey) = ""
             THEN [adapter |-> resolved, err |-> Err("validation", "API key is required")]
             ELSE [adapter |-> resolved, err |-> NoErr]

validate(b, a, envKey) ==
    LET resolved == IF TrimSpace(a.APIKey) = ""
                    THEN [a EXCEPT !.APIKey = envKey] ELSE a
    IN  IF b = "ollama"
        THEN IF TrimSpace(a.Model) = ""
             THEN [adapter |-> a, err |-> Err("validation", "model is required")]
             ELSE [adapter |-> resolved, err |-> NoErr]
        ELSE IF TrimSpace(resolved.APIKey) = ""
             THEN [adapter |-> resolved, err |-> Err("validation", "API key is required")]
             ELSE IF TrimSpace(resolved.Model) = ""
                  THEN [adapter |-> resolved, err |-> Err("validation", "model is required")]
                  ELSE [adapter |-> resolved, err |-> NoErr]

(***************************************************************************)
(* Message conversion (toChatMessages / toMessagesAndSystem / toMessages)  *)
(***************************************************************************)
\* strings.TrimSpace, strings.ToLower and strings.HasPrefix(_, "data:") on the
\* inline payloads the model draws
DataValues == {"", "b64", "data:b64", " data:b64", "DATA:b64"}
MimeValues == {"", "image/png", "audio/wav"}
PartKinds == {"image", "audio", "document"}

TrimData(d) == IF d = " data:b64" THEN "data:b64" ELSE d
ToLowerData(d) == IF d = "DATA:b64" THEN "data:b64" ELSE d
HasDataPrefix(d) == d = "data:b64"

audioFormatFromMime(mimeType) == IF mimeType = "audio/wav" THEN "wav" ELSE ""

\* openai image: the only openai converter that tests the prefix
dataURLFromDataSource(source) ==
    LET data == TrimData(source.Data)
    IN  IF data = "" THEN [err |-> Err("message", "image data is required")]
        ELSE IF HasDataPrefix(data) THEN [err |-> Err("message", "image data must be raw base64")]
        ELSE IF source.MimeType = "" THEN [err |-> Err("message", "image mime type is required")]
        ELSE [err |-> NoErr, data |-> "data:" \o source.MimeType \o ";base64," \o data]

audioPayloadFromDataSource(source) ==
    LET data == TrimData(source.Data)
    IN  IF data = "" THEN [err |-> Err("message", "audio data is required")]
        ELSE IF source.MimeType = "" THEN [err |-> Err("message", "audio mime type is required")]
        ELSE IF audioFormatFromMime(source.MimeType) = ""
        THEN [err |-> Err("message", "unsupported audio mime type")]
        ELSE [err |-> NoErr, data |-> data]

\* claude: one converter for image, audio and document blocks
dataMediaSource(source) ==
    LET data == TrimData(source.Data)
    IN  IF data = "" THEN [err |-> Err("message", "source data is required")]
        ELSE IF source.MimeType = "" THEN [err |-> Err("message", "source mime type is required")]
        ELSE [err |-> NoErr, data |-> data]

\* ollama image
dataImageSource(source) ==
    LET data == TrimData(source.Data)
    IN  IF data = "" THEN [err |-> Err("message", "image data is required")]
        ELSE IF HasDataPrefix(ToLowerData(data))
        THEN [err |-> Err("message", "image data must be raw base64")]
        ELSE IF source.MimeType = "" THEN [err |-> Err("message", "image mime type is required")]
        ELSE [err |-> NoErr, data |-> data]

\* toChatContentPart / toContentBlock / contentAndImages for one part
toContentPart(b, part) ==
    IF b = "openai"
    THEN IF part.kind = "image" THEN dataURLFromDataSource(part)
         ELSE IF part.kind = "audio" THEN audioPayloadFromDataSource(part)
         ELSE [err |-> Err("message", "document content is not supported")]
    ELSE IF b = "claude" THEN dataMediaSource(part)
    ELSE IF part.kind = "image" THEN dataImageSource(part)
         ELSE [err |-> Err("message", "content is not supported")]

RECURSIVE toContentPartsFrom(_, _, _, _)
toContentPartsFrom(b, parts, k, acc) ==
    IF k > Len(parts) THEN [err |-> NoErr, parts |-> acc]
    ELSE LET r == toContentPart(b, parts[k])
         IN  IF r.err # NoErr THEN [err |-> r.err]
             ELSE toContentPartsFrom(b, parts, k + 1, Append(acc, r.data))

\* newContentChatMessage / contentMessage
contentMessage(b, m) ==
    IF TrimSpace(m.Role) = "" THEN [err |-> Err("message", "role is required")]
    ELSE IF Len(m.Parts) = 0
    THEN [err |-> Err("message", "content message must include at least one content part")]
    ELSE LET c == toContentPartsFrom(b, m.Parts, 1, <<>>)
         IN  IF c.err # NoErr THEN [err |-> c.err]
             ELSE [err |-> NoErr,
                   msg |-> [role |-> TrimSpace(m.Role), kind |-> "content", content |-> c.parts]]

toMessage(b, m) ==
    IF m.type = "content" THEN contentMessage(b, m)
    ELSE IF TrimSpace(m.Role) = ""
    THEN [err |-> Err("message", "role is required")]
    ELSE [err |-> NoErr, msg |-> [role |-> TrimSpace(m.Role), kind |-> "text", content |-> m.Content]]

RECURSIVE toMessagesFrom(_, _, _, _)
toMessagesFrom(b, ms, i, out) ==
    IF i > Len(ms) THEN [err |-> NoErr, messages |-> out]
    ELSE LET r == toMessage(b, ms[i])
         IN  IF r.err # NoErr THEN [err |-> r.err, messages |-> <<>>]
             ELSE toMessagesFrom(b, ms, i + 1, Append(out, r.msg))

toMessages(b, p) ==
    IF p.isNil THEN [err |-> Err("params", "chat params are required"), messages |-> <<>>]
    ELSE toMessagesFrom(b, p.Messages, 1, <<>>)

(***************************************************************************)
(* Tool registration (toChatTools / toTools)                               *)
(***************************************************************************)
\* newServerTool / newClientTool: the trimmed name, or an error
newTool(t) ==
    IF t.kind = "nilptr" THEN [err |-> Err("tool", "tool is nil")]
    ELSE IF TrimSpace(t.Name) = "" THEN [err |-> Err("tool", "tool name is required")]
    ELSE IF t.kind = "server" /\ ~t.Handler THEN [err |-> Err("tool", "handler is required")]
    ELSE [err |-> NoErr, name |-> TrimSpace(t.Name)]

assertNewToolNameLax(seen, name) == NoErr

assertNewToolName(seen, name) ==
    IF name \in seen THEN Err("duplicate", name) ELSE NoErr

RECURSIVE toToolsFrom(_, _, _, _, _)
toToolsFrom(ts, i, serverTools, clientTools, seen) ==
    IF i > Len(ts)
    THEN [err |-> NoErr, serverTools |-> serverTools, clientTools |-> clientTools]
    ELSE LET r == newTool(ts[i])
         IN  IF r.err # NoErr
             THEN [err |-> r.err, serverTools |-> {}, clientTools |-> {}]
             ELSE IF assertNewToolName(seen, r.name) # NoErr
             THEN [err |-> assertNewToolName(seen, r.name), serverTools |-> {}, clientTools |-> {}]
             ELSE IF ts[i].kind = "server"
                  THEN toToolsFrom(ts, i + 1, serverTools \cup {r.name}, clientTools, seen \cup {r.name})
                  ELSE toToolsFrom(ts, i + 1, serverTools, clientTools \cup {r.name}, seen \cup {r.name})

toTools(p) ==
    IF p.isNil \/ Len(p.Tools) = 0
    THEN [err |-> NoErr, serverTools |-> {}, clientTools |-> {}]
    ELSE toToolsFrom(p.Tools, 1, {}, {}, {})

maxLoopsIgnoringTools(p, hasServerTools) ==
    IF ~p.isNil /\ p.MaxAgenticLoops > 0 THEN p.MaxAgenticLoops
    ELSE defaultMaxAgenticLoops

maxLoops(p, hasServerTools) ==
    IF ~hasServerTools THEN 1
    ELSE IF ~p.isNil /\ p.MaxAgenticLoops > 0 THEN p.MaxAgenticLoops
    ELSE defaultMaxAgenticLoops

\* a conversation that starts empty instead of from the caller's messages
cloneCoreMessagesEmpty(p) == <<>>

cloneCoreMessages(p) ==
    IF p.isNil \/ Len(p.Messages) = 0 THEN <<>> ELSE p.Messages


(***************************************************************************)
(* Text helpers: strings.TrimSpace, strings.HasPrefix and strings.Join on  *)
(* token sequences; " " is the whitespace token.                           *)
(***************************************************************************)
RECURSIVE TrimLeft(_)
TrimLeft(t) == IF Len(t) > 0 /\ t[1] = " " THEN TrimLeft(Tail(t)) ELSE t

RECURSIVE TrimRight(_)
TrimRight(t) ==
    IF Len(t) > 0 /\ t[Len(t)] = " " THEN TrimRight(SubSeq(t, 1, Len(t) - 1)) ELSE t

TrimText(t) == TrimRight(TrimLeft(t))

HasPrefix(t, p) == Len(p) <= Len(t) /\ SubSeq(t, 1, Len(p)) = p

RECURSIVE Join(_, _)
Join(parts, sep) ==
    IF Len(parts) = 0 THEN <<>>
    ELSE IF Len(parts) = 1 THEN parts[1]
    ELSE parts[1] \o sep \o Join(Tail(parts), sep)

\* every non-blank fragment recorded, a repeat of the last part included
appendReasoningPartKeepsRepeats(parts, reasoning) ==
    LET r == TrimText(reasoning)
    IN  IF r = <<>> THEN parts ELSE Append(parts, r)

appendReasoningPart(parts, reasoning) ==
    LET r == TrimText(reasoning)
    IN  IF r = <<>> THEN parts
        ELSE IF Len(parts) > 0 /\ parts[Len(parts)] = r THEN parts
        ELSE Append(parts, r)

joinReasoningParts(parts) ==
    IF Len(parts) = 0 THEN <<>> ELSE TrimText(Join(parts, <<"\n">>))

\* a blank value kept instead of the fallback
nonEmptyNoFallback(value, fallback) == TrimSpace(value)

nonEmpty(value, fallback) == IF TrimSpace(value) = "" THEN fallback ELSE TrimSpace(value)

(***************************************************************************)
(* The backend's answers.                                                  *)
(***************************************************************************)
CallNames == {"a", "b"}
\* "malformed": an arguments string that is not JSON (openai sends strings)
CallArguments(b) == IF b = "openai" THEN {"ok", "bad", "malformed"} ELSE {"ok", "bad"}
CallIDs == {"c1"}
CallValues(b) == [ID : CallIDs, Name : CallNames, Arguments : CallArguments(b)]

Contents == {<<>>, <<"t">>}
Thinkings == {<<>>, <<"th">>}
FinishReasons == {"", "length"}

\* token counts as a response or a stream event carries them
NoWireUsage == [present |-> FALSE, input |-> 0, output |-> 0]
WireUsage(input, output) == [present |-> TRUE, input |-> input, output |-> output]

\* nil *core.Usage
NoUsage == [kind |-> "nil"]

\* toCoreUsage (openai, claude): nil for a nil pointer; toCoreChatUsage
\* (ollama): nil when no count is positive
toCoreUsage(b, in) ==
    IF (IF b = "ollama" THEN in.input <= 0 /\ in.output <= 0 ELSE ~in.present)
    THEN NoUsage
    ELSE [kind |-> "usage", PromptTokens |-> in.input, CompletionTokens |-> in.output,
          TotalTokens |-> in.input + in.output]

\* a failed transport call: connection failure, status >= 400, undecodable body
TransportError == [kind |-> "error"]
\* openai: a 2xx body with no choices
EmptyChoices == [kind |-> "empty"]

\* an assistant turn without tool calls; openai may fail to decode its content
TextResponses(b) ==
    [kind : {"message"}, Content : Contents, Thinking : Thinkings, ToolCalls : {<<>>},
     FinishReason : FinishReasons, Decodable : IF b = "openai" THEN BOOLEAN ELSE {TRUE},
     Usage : {WireUsage(1, 1)}]
\* an assistant turn with tool calls
ToolResponses(b) ==
    [kind : {"message"}, Content : IF b = "ollama" THEN Contents ELSE {<<>>},
     Thinking : {<<>>},
     ToolCalls : SeqsFromTo(CallValues(b), 1, MaxCalls),
     FinishReason : {"tool_calls"}, Decodable : {TRUE}, Usage : {WireUsage(1, 1)}]

ResponsesOf(b) ==
    {TransportError} \cup (IF b = "openai" THEN {EmptyChoices} ELSE {})
        \cup TextResponses(b) \cup ToolResponses(b)

\* the answers drawn while a stream replays a Chat call
StreamResponsesOf(b) ==
    {TransportError}
        \cup [kind : {"message"}, Content : Contents, Thinking : Thinkings, ToolCalls : {<<>>},
              FinishReason : {""}, Decodable : {TRUE},
              Usage : {NoWireUsage, WireUsage(1, 1)}]
        \cup [kind : {"message"}, Content : IF b = "ollama" THEN Contents ELSE {<<>>},
              Thinking : {<<>>},
              ToolCalls : {<<[Name |-> n, Arguments |-> "ok", ID |-> "c1"]>> : n \in CallNames}
                          \cup {<<[Name |-> n1, Arguments |-> "ok", ID |-> "c1"],
                                  [Name |-> n2, Arguments |-> "ok", ID |-> "c2"]>> :
                                    n1 \in CallNames, n2 \in CallNames},
              FinishReason : {"tool_calls"}, Decodable : {TRUE}, Usage : {WireUsage(1, 1)}]

\* the answers of a run about call ids: a text answer, and assistant turns
\* whose calls come with an id or without one
IdCallValues == [ID : {"c1", ""}, Name : CallNames, Arguments : {"ok"}]
IdResponsesOf(b) ==
    [kind : {"message"}, Content : {<<"t">>}, Thinking : {<<>>}, ToolCalls : {<<>>},
     FinishReason : {""}, Decodable : {TRUE}, Usage : {NoWireUsage}]
        \cup [kind : {"message"}, Content : {<<>>}, Thinking : {<<>>},
              ToolCalls : SeqsFromTo(IdCallValues, 1, MaxCalls),
              FinishReason : {"tool_calls"}, Decodable : {TRUE}, Usage : {WireUsage(1, 1)}]

Terminal(resp) == IF resp.kind # "message" THEN TRUE ELSE Len(resp.ToolCalls) = 0

NoResponse == [kind |-> "none"]

(***************************************************************************)
(* The caller's handlers: a handler fails on arguments it cannot use.      *)
(***************************************************************************)
Handler(name, arguments) ==
    IF arguments = "ok"
    THEN [result |-> <<"r">>, err |-> NoErr]
    ELSE [result |-> <<>>, err |-> Err("handler", <<"boom">>)]

(***************************************************************************)
(* toCoreToolCalls                                                         *)
(***************************************************************************)
SynthID(n) == "call_" \o ToString(n)

RECURSIVE toCoreToolCallsFrom(_, _, _, _)
toCoreToolCallsFrom(b, calls, n, out) ==
    IF n > Len(calls) THEN [err |-> NoErr, calls |-> out]
    ELSE LET c == calls[n]
         IN  CASE b = "openai" ->
                    IF c.Arguments = "malformed"
                    THEN [err |-> Err("arguments", c.Name), calls |-> <<>>]
                    ELSE toCoreToolCallsFrom(b, calls, n + 1, Append(out, c))
               [] b = "ollama" ->
                    IF TrimSpace(c.Name) = ""
                    THEN [err |-> Err("arguments", "missing function name"), calls |-> <<>>]
                    ELSE toCoreToolCallsFrom(b, calls, n + 1,
                            Append(out, [ID |-> IF TrimSpace(c.ID) = "" THEN SynthID(n) ELSE TrimSpace(c.ID),
                                         Name |-> TrimSpace(c.Name),
                                         Arguments |-> c.Arguments]))
               [] OTHER -> toCoreToolCallsFrom(b, calls, n + 1, Append(out, c))

toCoreToolCalls(b, calls) == toCoreToolCallsFrom(b, calls, 1, <<>>)


(***************************************************************************)
(* One assistant turn's tool calls, handled in order (the inner for loop   *)
(* of Chat).  st carries the loop's locals; the walk stops at the first    *)
(* call whose name is not registered.                                      *)
(***************************************************************************)
toolErrorResultRaw(callErr) == callErr.detail

toolErrorResult(callErr) == <<"tool_error: ">> \o callErr.detail

ToolCallTurn(calls) == [type |-> "tool_call", Role |-> "tool_call", ToolCalls |-> calls]
\* a result turn that does not say which call it answers
ToolResultTurnNoID(id, name, content) ==
    [type |-> "tool_result", Role |-> "tool_result", ToolCallID |-> "", Name |-> name, Content |-> content]

\* a result turn that names its call where the id belongs
ToolResultTurnSwapped(id, name, content) ==
    [type |-> "tool_result", Role |-> "tool_result", ToolCallID |-> name, Name |-> id, Content |-> content]

ToolResultTurn(id, name, content) ==
    [type |-> "tool_result", Role |-> "tool_result", ToolCallID |-> id, Name |-> name, Content |-> content]
AssistantText(text) == [type |-> "text", Role |-> "assistant", Content |-> text]

\* the walk leaves the turn at its first client call
RECURSIVE runToolCallsStopAtClient(_, _, _, _, _, _)
runToolCallsStopAtClient(b, wire, core, idx, tools, st) ==
    IF idx > Len(wire) THEN st
    ELSE LET name == IF b = "ollama" THEN core[idx].Name ELSE wire[idx].Name
             id == IF b = "ollama" THEN core[idx].ID ELSE wire[idx].ID
         IN  IF name \in tools.server
             THEN LET h == Handler(name, core[idx].Arguments)
                      result == IF h.err # NoErr THEN toolErrorResult(h.err) ELSE h.result
                      toolMsg == [role |-> "tool", kind |-> "tool_result", id |-> id, content |-> result]
                  IN  runToolCallsStopAtClient(b, wire, core, idx + 1, tools,
                        [st EXCEPT
                           !.messages = IF b = "claude" THEN @ ELSE Append(@, toolMsg),
                           !.resultBlocks = IF b = "claude" THEN Append(@, toolMsg) ELSE @,
                           !.conversation = Append(@, ToolResultTurn(id, name, result)),
                           !.log = Append(@, [Name |-> name, Arguments |-> core[idx].Arguments])])
             ELSE IF name \in tools.client
             THEN [st EXCEPT !.pending = Append(@, core[idx])]
             ELSE [st EXCEPT !.err = Err("unregistered", name)]

\* the walk skips a call whose name is not registered
RECURSIVE runToolCallsDropUnregistered(_, _, _, _, _, _)
runToolCallsDropUnregistered(b, wire, core, idx, tools, st) ==
    IF idx > Len(wire) THEN st
    ELSE LET name == IF b = "ollama" THEN core[idx].Name ELSE wire[idx].Name
             id == IF b = "ollama" THEN core[idx].ID ELSE wire[idx].ID
         IN  IF name \in tools.server
             THEN LET h == Handler(name, core[idx].Arguments)
                      result == IF h.err # NoErr THEN toolErrorResult(h.err) ELSE h.result
                      toolMsg == [role |-> "tool", kind |-> "tool_result", id |-> id, content |-> result]
                  IN  runToolCallsDropUnregistered(b, wire, core, idx + 1, tools,
                        [st EXCEPT
                           !.messages = IF b = "claude" THEN @ ELSE Append(@, toolMsg),
                           !.resultBlocks = IF b = "claude" THEN Append(@, toolMsg) ELSE @,
                           !.conversation = Append(@, ToolResultTurn(id, name, result)),
                           !.log = Append(@, [Name |-> name, Arguments |-> core[idx].Arguments])])
             ELSE IF name \in tools.client
             THEN runToolCallsDropUnregistered(b, wire, core, idx + 1, tools,
                        [st EXCEPT !.pending = Append(@, core[idx])])
             ELSE runToolCallsDropUnregistered(b, wire, core, idx + 1, tools, st)

\* a client call queued for the caller and run as well
RECURSIVE runToolCallsRunsPending(_, _, _, _, _, _)
runToolCallsRunsPending(b, wire, core, idx, tools, st) ==
    IF idx > Len(wire) THEN st
    ELSE LET name == IF b = "ollama" THEN core[idx].Name ELSE wire[idx].Name
             id == IF b = "ollama" THEN core[idx].ID ELSE wire[idx].ID
             ran == [Name |-> name, Arguments |-> core[idx].Arguments]
         IN  IF name \in tools.server
             THEN LET h == Handler(name, core[idx].Arguments)
                      result == IF h.err # NoErr THEN toolErrorResult(h.err) ELSE h.result
                      toolMsg == [role |-> "tool", kind |-> "tool_result", id |-> id, content |-> result]
                  IN  runToolCallsRunsPending(b, wire, core, idx + 1, tools,
                        [st EXCEPT
                           !.messages = IF b = "claude" THEN @ ELSE Append(@, toolMsg),
                           !.resultBlocks = IF b = "claude" THEN Append(@, toolMsg) ELSE @,
                           !.conversation = Append(@, ToolResultTurn(id, name, result)),
                           !.log = Append(@, ran)])
             ELSE IF name \in tools.client
             THEN runToolCallsRunsPending(b, wire, core, idx + 1, tools,
                        [st EXCEPT !.pending = Append(@, core[idx]), !.log = Append(@, ran)])
             ELSE [st EXCEPT !.err = Err("unregistered", name)]

\* every name looked up before any handler runs
runToolCallsChecksFirst(b, wire, core, idx, tools, st) ==
    LET nameAt(k) == IF b = "ollama" THEN core[k].Name ELSE wire[k].Name
        unknown == {k \in idx..Len(wire) : nameAt(k) \notin tools.server \cup tools.client}
    IN  IF unknown # {}
        THEN [st EXCEPT !.err = Err("unregistered", nameAt(CHOOSE k \in unknown : \A j \in unknown : k <= j))]
        ELSE runToolCallsDropUnregistered(b, wire, core, idx, tools, st)

RECURSIVE runToolCalls(_, _, _, _, _, _)
runToolCalls(b, wire, core, idx, tools, st) ==
    IF idx > Len(wire) THEN st
    ELSE LET name == IF b = "ollama" THEN core[idx].Name ELSE wire[idx].Name
             id == IF b = "ollama" THEN core[idx].ID ELSE wire[idx].ID
         IN  IF name \in tools.server
             THEN LET h == Handler(name, core[idx].Arguments)
                      result == IF h.err # NoErr THEN toolErrorResult(h.err) ELSE h.result
                      toolMsg == [role |-> "tool", kind |-> "tool_result", id |-> id, content |-> result]
                  IN  runToolCalls(b, wire, core, idx + 1, tools,
                        [st EXCEPT
                           !.messages = IF b = "claude" THEN @ ELSE Append(@, toolMsg),
                           !.resultBlocks = IF b = "claude" THEN Append(@, toolMsg) ELSE @,
                           !.conversation = Append(@, ToolResultTurn(id, name, result)),
                           !.log = Append(@, [Name |-> name, Arguments |-> core[idx].Arguments])])
             ELSE IF name \in tools.client
             THEN runToolCalls(b, wire, core, idx + 1, tools,
                        [st EXCEPT !.pending = Append(@, core[idx])])
             ELSE [st EXCEPT !.err = Err("unregistered", name)]

(***************************************************************************)
(* One iteration of Chat's loop on the backend's answer resp.              *)
(* loc = [messages, conversation, reasoningParts, log]; the outcome has    *)
(* the new locals and, when the iteration returns, result or err.          *)
(***************************************************************************)
Returned(loc, result, err) ==
    [messages |-> loc.messages, conversation |-> loc.conversation,
     reasoningParts |-> loc.reasoningParts, log |-> loc.log,
     returns |-> TRUE, result |-> result, err |-> err]

Continues(loc) ==
    [messages |-> loc.messages, conversation |-> loc.conversation,
     reasoningParts |-> loc.reasoningParts, log |-> loc.log,
     returns |-> FALSE, result |-> NoResult, err |-> NoErr]

ChatResult(text, parts, conversation, toolCalls, finishReason, usage) ==
    [kind |-> "result", Text |-> text, Reasoning |-> joinReasoningParts(parts),
     Messages |-> conversation, ToolCalls |-> toolCalls, FinishReason |-> finishReason,
     Usage |-> usage]

\* the failed request sent again in the next iteration
transportFailedRetried(loc) == Continues(loc)

\* response, err := a.postMessages(ctx, &request); if err != nil { return nil, err }
transportFailed(loc) == Returned(loc, NoResult, Err("transport", "request failed"))

chatIteration(b, tools, loc, resp) ==
    IF resp.kind = "error" THEN transportFailed(loc)
    ELSE IF resp.kind = "empty" THEN Returned(loc, NoResult, Err("empty", "empty response choices"))
    ELSE
    LET parts == appendReasoningPart(loc.reasoningParts, resp.Thinking)
        loc1 == [loc EXCEPT !.reasoningParts = parts]
    IN  IF Len(resp.ToolCalls) = 0
        THEN IF b = "openai" /\ ~resp.Decodable
             THEN Returned(loc1, NoResult, Err("decode", "assistant content"))
             ELSE LET conv == Append(loc.conversation, AssistantText(resp.Content))
                  IN  Returned([loc1 EXCEPT !.conversation = conv],
                               ChatResult(resp.Content, parts, conv, <<>>,
                                          nonEmpty(resp.FinishReason, "stop"),
                                          toCoreUsage(b, resp.Usage)),
                               NoErr)
        ELSE
        LET assistantMsg == [role |-> "assistant", kind |-> "tool_calls", calls |-> resp.ToolCalls]
            loc2 == [loc1 EXCEPT !.messages = Append(@, assistantMsg)]
            cc == toCoreToolCalls(b, resp.ToolCalls)
        IN  IF cc.err # NoErr THEN Returned(loc2, NoResult, cc.err)
            ELSE
            LET conv0 == IF b = "ollama" /\ TrimText(resp.Content) # <<>>
                         THEN Append(loc.conversation, AssistantText(resp.Content))
                         ELSE loc.conversation
                st0 == [messages |-> loc2.messages, resultBlocks |-> <<>>,
                        conversation |-> Append(conv0, ToolCallTurn(cc.calls)),
                        pending |-> <<>>, log |-> loc.log, err |-> NoErr]
                st == runToolCalls(b, resp.ToolCalls, cc.calls, 1, tools, st0)
                loc3 == [messages |-> st.messages, conversation |-> st.conversation,
                         reasoningParts |-> parts, log |-> st.log]
            IN  IF st.err # NoErr THEN Returned(loc3, NoResult, st.err)
                ELSE IF Len(st.pending) > 0
                THEN Returned(loc3,
                              ChatResult(<<>>, parts, st.conversation, st.pending, "tool_calls",
                                         toCoreUsage(b, resp.Usage)),
                              NoErr)
                ELSE IF b = "claude" /\ Len(st.resultBlocks) > 0
                THEN Continues([loc3 EXCEPT !.messages =
                        Append(@, [role |-> "user", kind |-> "tool_results", blocks |-> st.resultBlocks])])
                ELSE Continues(loc3)


(***************************************************************************)
(* openai: the text and reasoning of one response choice or stream delta.  *)
(* A choice is its typed fields; rawChoice is the same choice as raw JSON, *)
(* given by the strings the generic walk arrives at.  The raw choice is a  *)
(* json.RawMessage of a decoded envelope, so decoding it does not fail.    *)
(***************************************************************************)
DecodeTexts == {<<>>, <<" ">>, <<"t">>, <<" ", "t">>}
ChoiceValues ==
    [Content : DecodeTexts, Refusal : {<<>>, <<"no">>}, Text : {<<>>, <<"c">>},
     ReasoningContent : {<<>>, <<" ", "th">>}, Reasoning : {<<>>, <<"rs">>},
     Decodable : BOOLEAN]
RawChoiceValues ==
    [present : BOOLEAN, text : {<<>>, <<" ">>, <<"r">>}, reasoning : {<<>>, <<"rr">>}]

NoChoice == [kind |-> "none"]
NoDecoded == [kind |-> "none"]
Decoded(path, err, text, reasoning, rawText, rawReasoning) ==
    [kind |-> "decoded", path |-> path, err |-> err, text |-> text, reasoning |-> reasoning,
     rawText |-> rawText, rawReasoning |-> rawReasoning]

\* case string of extractTextFromAny
extractTextFromAny(v) == IF TrimText(v) = <<>> THEN <<>> ELSE v

parseAssistantMessage(c) ==
    IF ~c.Decodable THEN [err |-> Err("decode", "assistant content"), text |-> <<>>]
    ELSE IF TrimText(c.Content) # <<>> THEN [err |-> NoErr, text |-> c.Content]
    ELSE IF TrimText(c.Refusal) # <<>> THEN [err |-> NoErr, text |-> c.Refusal]
    ELSE [err |-> NoErr, text |-> <<>>]

parseAssistantChoice(c) ==
    LET m == parseAssistantMessage(c)
    IN  IF m.err # NoErr THEN m
        ELSE IF TrimText(m.text) # <<>> THEN m
        ELSE IF TrimText(c.Text) # <<>> THEN [err |-> NoErr, text |-> c.Text]
        ELSE [err |-> NoErr, text |-> <<>>]

parseAssistantChoiceRaw(r) == extractTextFromAny(r.text)

parseAssistantChoiceReasoning(c) ==
    IF TrimText(c.ReasoningContent) # <<>> THEN TrimText(c.ReasoningContent)
    ELSE TrimText(c.Reasoning)

parseAssistantChoiceRawReasoning(r) == TrimText(extractTextFromAny(r.reasoning))

parseStreamChoiceText(c) ==
    IF ~c.Decodable THEN [err |-> Err("decode", "stream delta"), text |-> <<>>]
    ELSE IF TrimText(c.Content) # <<>> THEN [err |-> NoErr, text |-> c.Content]
    ELSE IF TrimText(c.Refusal) # <<>> THEN [err |-> NoErr, text |-> c.Refusal]
    ELSE IF TrimText(c.Text) # <<>> THEN [err |-> NoErr, text |-> c.Text]
    ELSE [err |-> NoErr, text |-> <<>>]

parseStreamChoiceRaw(r) == extractTextFromAny(r.text)

parseStreamChoiceReasoning(c) ==
    IF TrimText(c.ReasoningContent) # <<>> THEN TrimText(c.ReasoningContent)
    ELSE TrimText(c.Reasoning)

parseStreamChoiceRawReasoning(r) == TrimText(extractTextFromAny(r.reasoning))

\* a Chat that takes the raw text whenever the raw walk finds any
chatDecodeRawPreferred(c, r) ==
    LET t == parseAssistantChoice(c)
        useRaw == r.present /\ parseAssistantChoiceRaw(r) # <<>>
    IN  IF t.err # NoErr THEN Decoded("Chat", t.err, <<>>, <<>>, FALSE, FALSE)
        ELSE Decoded("Chat", NoErr, IF useRaw THEN parseAssistantChoiceRaw(r) ELSE t.text,
                     parseAssistantChoiceReasoning(c), useRaw, FALSE)

\* Chat: reasoning and text of response.Choices[0]
chatDecode(c, r) ==
    LET typedReasoning == parseAssistantChoiceReasoning(c)
        rawReasoning == typedReasoning = <<>> /\ r.present
        reasoning == IF rawReasoning THEN parseAssistantChoiceRawReasoning(r) ELSE typedReasoning
        t == parseAssistantChoice(c)
        rawText == t.err = NoErr /\ TrimText(t.text) = <<>> /\ r.present
    IN  IF t.err # NoErr THEN Decoded("Chat", t.err, <<>>, reasoning, FALSE, rawReasoning)
        ELSE Decoded("Chat", NoErr, IF rawText THEN parseAssistantChoiceRaw(r) ELSE t.text,
                     reasoning, rawText, rawReasoning)

\* ChatStream: reasoning and delta text of one choice of a stream event
streamDecode(c, r) ==
    LET typedReasoning == parseStreamChoiceReasoning(c)
        rawReasoning == typedReasoning = <<>> /\ r.present
        reasoning == IF rawReasoning THEN parseStreamChoiceRawReasoning(r) ELSE typedReasoning
        t == parseStreamChoiceText(c)
        rawText == t.err = NoErr /\ t.text = <<>> /\ r.present
    IN  IF t.err # NoErr THEN Decoded("ChatStream", t.err, <<>>, reasoning, FALSE, rawReasoning)
        ELSE Decoded("ChatStream", NoErr, IF rawText THEN parseStreamChoiceRaw(r) ELSE t.text,
                     reasoning, rawText, rawReasoning)

(***************************************************************************)
(* State.                                                                  *)
(***************************************************************************)
VARIABLES
    family,         \* which input sets the run draws from (fixed by Init)
    backend,        \* the adapter's package
    adapter,        \* the Adapter's fields
    params,         \* the caller's *core.ChatParams
    mode,           \* the entry point called: "Chat" or "ChatStream"
    cpc,            \* Chat: "idle", "start", "loop", "done"
    tools,          \* Chat: [server, client], the maps built by toTools
    maxLoopCount,   \* Chat: the loop bound
    i,              \* Chat: the loop counter
    loc,            \* Chat: [messages, conversation, reasoningParts, log]
    chatResult,     \* Chat's first return value
    chatErr,        \* Chat's second return value
    transportCalls, \* transport calls made so far in this invocation
    lastRequest,    \* the messages of the most recent request
    lastResp,       \* the answer that ended the call, or the one a scripted
                    \*   backend repeats
    errAtCalls,     \* transportCalls when Chat returned its error
    spc,            \* ChatStream: "idle", "start", "returned", "branch", "chat",
                    \*   "connect", "scan", "closing", "exited"
    streamErr,      \* ChatStream's error return value
    chanMade,       \* ChatStream returned a channel
    out,            \* the channel's buffer
    closed,         \* close(out) has run
    sendq,          \* chunks the producer is about to send, in order
    received,       \* chunks the consumer has received, in order
    consumer,       \* "none", "receiving", "abandoned", "done"
    ctx,            \* TRUE once the caller's context is cancelled
    live,           \* live path: content, reasoningParts, reasoning, finishReason
    framesLeft,     \* frames the response body may still deliver
    framesRead,     \* frames the scanner has delivered so far, in order
    snapshot,       \* reconciler: the snapshot its caller holds
    segments,       \* reconciler: the calls made so far, in order, each
                    \*   [current, incoming, next, delta]
    choice,         \* decode: the typed fields of the choice at hand
    rawChoice,      \* decode: the same choice as raw JSON
    decoded         \* decode: what Chat or ChatStream made of the choice

chatVars == <<cpc, tools, maxLoopCount, i, loc, chatResult, chatErr,
              transportCalls, lastRequest, lastResp, errAtCalls>>

streamVars == <<spc, streamErr, chanMade, out, closed, sendq, received, consumer,
                ctx, live, framesLeft, framesRead>>

segmentVars == <<snapshot, segments>>

decodeVars == <<choice, rawChoice, decoded>>

fixedVars == <<family, backend, params, mode, segmentVars, decodeVars>>

NoLoc == [messages |-> <<>>, conversation |-> <<>>, reasoningParts |-> <<>>, log |-> <<>>]
NoTools == [server |-> {}, client |-> {}]

AdapterValues == [APIKey : KeyValues, Model : ModelValues]

(***************************************************************************)
(* Chat, up to the loop: validate, buildRequestTemplate, cloneCoreMessages *)
(***************************************************************************)
buildRequestTemplate(b, p) ==
    LET m == toMessages(b, p)
        t == toTools(p)
    IN  IF m.err # NoErr THEN [err |-> m.err]
        ELSE IF t.err # NoErr THEN [err |-> t.err]
        ELSE [err |-> NoErr, messages |-> m.messages,
              tools |-> [server |-> t.serverTools, client |-> t.clientTools],
              maxLoopCount |-> maxLoops(p, t.serverTools # {})]

\* the error dropped on the way out: nil, nil
ChatReturnsErrorSwallowed(e) ==
    /\ cpc' = "done"
    /\ chatErr' = NoErr
    /\ chatResult' = NoResult
    /\ errAtCalls' = transportCalls

ChatReturnsError(e) ==
    /\ cpc' = "done"
    /\ chatErr' = e
    /\ chatResult' = NoResult
    /\ errAtCalls' = transportCalls

ChatStart ==
    /\ cpc = "start"
    /\ \E envKey \in EnvKeyValues :
         LET v == validate(backend, adapter, envKey)
             t == buildRequestTemplate(backend, params)
         IN  /\ adapter' = v.adapter
             /\ IF v.err # NoErr
                THEN ChatReturnsError(v.err) /\ UNCHANGED <<tools, maxLoopCount, i, loc>>
                ELSE IF t.err # NoErr
                THEN ChatReturnsError(t.err) /\ UNCHANGED <<tools, maxLoopCount, i, loc>>
                ELSE /\ cpc' = "loop"
                     /\ tools' = t.tools
                     /\ maxLoopCount' = t.maxLoopCount
                     /\ i' = 0
                     /\ loc' = [messages |-> t.messages,
                                conversation |-> cloneCoreMessages(params),
                                reasoningParts |-> <<>>, log |-> <<>>]
                     /\ UNCHANGED <<chatResult, chatErr, errAtCalls>>
    /\ UNCHANGED <<transportCalls, lastRequest, lastResp>>

(***************************************************************************)
(* One loop iteration: postMessages / postChatCompletions / postChat and   *)
(* the handling of its answer.                                             *)
(***************************************************************************)
\* the rounds in which the backend answers freely: all of them when the
\* answers differ only in their calls' ids and names
FreeRounds == IF family = "ids" THEN MaxLoopsParam ELSE MaxScript

ChatRound ==
    /\ cpc = "loop"
    /\ i < maxLoopCount
    /\ \E resp \in (IF ctx THEN {TransportError}
                    ELSE IF family = "loop" THEN ResponsesOf(backend)
                    ELSE IF family = "ids" THEN IdResponsesOf(backend)
                    ELSE StreamResponsesOf(backend)) :
         /\ IF i >= FreeRounds /\ resp # lastResp THEN Terminal(resp) ELSE TRUE
         /\ LET o == chatIteration(backend, tools, loc, resp)
            IN  /\ transportCalls' = transportCalls + 1
                /\ lastRequest' = loc.messages
                /\ loc' = [messages |-> o.messages, conversation |-> o.conversation,
                           reasoningParts |-> o.reasoningParts, log |-> o.log]
                /\ IF o.returns
                   THEN /\ cpc' = "done"
                        /\ chatResult' = o.result
                        /\ chatErr' = o.err
                        /\ errAtCalls' = transportCalls + 1
                        /\ i' = i
                        /\ lastResp' = resp
                   ELSE /\ i' = i + 1
                        /\ lastResp' = IF i + 1 >= FreeRounds THEN resp ELSE NoResponse
                        /\ UNCHANGED <<cpc, chatResult, chatErr, errAtCalls>>
    /\ UNCHANGED <<adapter, tools, maxLoopCount>>

\* the exhausted budget reported as a completed chat
ChatBudgetExceededAsCompletion ==
    /\ cpc = "loop"
    /\ i >= maxLoopCount
    /\ cpc' = "done"
    /\ chatErr' = NoErr
    /\ chatResult' = ChatResult(<<>>, loc.reasoningParts, loc.conversation, <<>>, "stop",
                                NoUsage)
    /\ errAtCalls' = transportCalls
    /\ UNCHANGED <<adapter, tools, maxLoopCount, i, loc, transportCalls, lastRequest, lastResp>>

\* the loop ran maxLoopCount times without returning
ChatBudgetExceeded ==
    /\ cpc = "loop"
    /\ i >= maxLoopCount
    /\ ChatReturnsError(Err("budget", maxLoopCount))
    /\ UNCHANGED <<adapter, tools, maxLoopCount, i, loc, transportCalls, lastRequest, lastResp>>



(***************************************************************************)
(* ChatStream: chunks, the simulated replay and the live frame reader.     *)
(***************************************************************************)
\* make(chan core.StreamChunk, 64)
StreamBuffer == 64

ErrorChunk(e) == [Type |-> "error", Error |-> e]
DoneChunk(finishReason, reasoning, usage) ==
    [Type |-> "done", FinishReason |-> finishReason, Reasoning |-> reasoning, Usage |-> usage]
ContentChunk(delta, content) == [Type |-> "content", Delta |-> delta, Content |-> content]
ReasoningChunk(delta, reasoning) == [Type |-> "reasoning", Delta |-> delta, Reasoning |-> reasoning]
ToolCallChunk(call) == [Type |-> "tool_call", ToolCall |-> call]
ToolResultChunk(id, content) == [Type |-> "tool_result", ToolCallID |-> id, Content |-> content]

IsTerminalChunk(c) == c.Type \in {"done", "error"}

defaultFinishReason(result) == IF Len(result.ToolCalls) > 0 THEN "tool_calls" ELSE "stop"

RECURSIVE ToolCallChunks(_)
ToolCallChunks(calls) ==
    IF Len(calls) = 0 THEN <<>> ELSE <<ToolCallChunk(Head(calls))>> \o ToolCallChunks(Tail(calls))

MessageChunks(m) ==
    CASE m.type = "text" ->
            IF m.Role = "assistant" THEN <<ContentChunk(m.Content, m.Content)>> ELSE <<>>
      [] m.type = "tool_call" -> ToolCallChunks(m.ToolCalls)
      [] m.type = "tool_result" -> <<ToolResultChunk(m.ToolCallID, m.Content)>>
      [] OTHER -> <<>>

RECURSIVE MessagesChunks(_, _)
MessagesChunks(ms, n) ==
    IF n > Len(ms) THEN <<>> ELSE MessageChunks(ms[n]) \o MessagesChunks(ms, n + 1)

\* the Reasoning chunk sent after the turns' chunks
emitChunksFromResultReasoningLast(p, result) ==
    LET reasoning == TrimText(result.Reasoning)
        start0 == IF p.isNil THEN 0 ELSE Len(p.Messages)
        start == IF start0 > Len(result.Messages) THEN 0 ELSE start0
    IN  MessagesChunks(result.Messages, start + 1)
            \o (IF reasoning # <<>> THEN <<ReasoningChunk(reasoning, reasoning)>> ELSE <<>>)

\* the chunks emitChunksFromResult sends, in order
emitChunksFromResult(p, result) ==
    LET reasoning == TrimText(result.Reasoning)
        start0 == IF p.isNil THEN 0 ELSE Len(p.Messages)
        start == IF start0 > Len(result.Messages) THEN 0 ELSE start0
    IN  (IF reasoning # <<>> THEN <<ReasoningChunk(reasoning, reasoning)>> ELSE <<>>)
            \o MessagesChunks(result.Messages, start + 1)

\* the error of the replayed Chat call dropped without a chunk
simulatedChunksErrorSwallowed(p, result, err) ==
    IF err # NoErr THEN <<>>
    ELSE emitChunksFromResult(p, result)
            \o <<DoneChunk(nonEmpty(result.FinishReason, defaultFinishReason(result)),
                           result.Reasoning, result.Usage)>>

\* a Done chunk that leaves the result's usage behind
simulatedChunksNoUsage(p, result, err) ==
    IF err # NoErr THEN <<ErrorChunk(err)>>
    ELSE emitChunksFromResult(p, result)
            \o <<DoneChunk(nonEmpty(result.FinishReason, defaultFinishReason(result)),
                           result.Reasoning, NoUsage)>>

\* the goroutine's tools-or-schema branch, once Chat has returned
simulatedChunks(p, result, err) ==
    IF err # NoErr THEN <<ErrorChunk(err)>>
    ELSE emitChunksFromResult(p, result)
            \o <<DoneChunk(nonEmpty(result.FinishReason, defaultFinishReason(result)),
                           result.Reasoning, result.Usage)>>

\* a cumulative snapshot returned whole as its delta
appendStreamSegmentWholeDelta(current, incoming) ==
    IF incoming = <<>> THEN [next |-> current, delta |-> <<>>]
    ELSE IF HasPrefix(incoming, current) THEN [next |-> incoming, delta |-> incoming]
    ELSE IF HasPrefix(current, incoming) THEN [next |-> current, delta |-> <<>>]
    ELSE [next |-> current \o incoming, delta |-> incoming]

\* every fragment taken as an increment
appendStreamSegmentAlwaysAppends(current, incoming) ==
    IF incoming = <<>> THEN [next |-> current, delta |-> <<>>]
    ELSE [next |-> current \o incoming, delta |-> incoming]

\* the stale-echo rule left out
appendStreamSegmentNoEcho(current, incoming) ==
    IF incoming = <<>> THEN [next |-> current, delta |-> <<>>]
    ELSE IF HasPrefix(incoming, current)
    THEN [next |-> incoming, delta |-> SubSeq(incoming, Len(current) + 1, Len(incoming))]
    ELSE [next |-> current \o incoming, delta |-> incoming]

appendStreamSegment(current, incoming) ==
    IF incoming = <<>> THEN [next |-> current, delta |-> <<>>]
    ELSE IF HasPrefix(incoming, current)
    THEN [next |-> incoming, delta |-> SubSeq(incoming, Len(current) + 1, Len(incoming))]
    ELSE IF HasPrefix(current, incoming) THEN [next |-> current, delta |-> <<>>]
    ELSE [next |-> current \o incoming, delta |-> incoming]

(***************************************************************************)
(* Frames of a live stream.  kind: "skip" a blank, comment or non-data     *)
(* line; "bad" an undecodable payload; "delta" a content event; "thinking" *)
(* claude's thinking_delta; "error" an error event; "end" the end marker   *)
(* ([DONE], message_stop, done:true).                                      *)
(***************************************************************************)
Frame(kind, text, thinking, finish) ==
    [kind |-> kind, Text |-> text, Thinking |-> thinking, FinishReason |-> finish,
     Usage |-> NoWireUsage]

\* thinking text of a frame: an increment, an increment that begins with a
\* space, and a snapshot that repeats and extends the first
FrameThinkings == {<<>>, <<"th">>, <<" ", "u">>, <<"th", " ", "u">>}

PlainFrames == {Frame(k, <<>>, <<>>, "") : k \in {"skip", "bad", "error"}}

\* text fragments of a reply sent word by word: a word, the blank between two
\* words, and a word again
TextFragments == {<<"t">>, <<" ">>, <<"u">>}
TextFrames == {Frame("delta", t, <<>>, "") : t \in TextFragments}

FramesOf(b) ==
    PlainFrames \cup
    CASE b = "openai" ->
            {Frame("delta", t, th, f) : t \in Contents, th \in FrameThinkings, f \in FinishReasons}
                \cup {Frame("end", <<>>, <<>>, "")}
      [] b = "claude" ->
            {Frame("delta", t, <<>>, "") : t \in Contents}
                \cup {Frame("thinking", t, th, "") : t \in Contents, th \in FrameThinkings}
                \cup {Frame("end", <<>>, <<>>, "")}
      [] OTHER ->
            {Frame(k, t, th, f) : k \in {"delta", "end"}, t \in Contents,
                                  th \in FrameThinkings, f \in FinishReasons}

\* in a bulk run the backend sends content deltas only
BulkFrames == {Frame("delta", <<"t">>, <<>>, "")}

\* token counts a frame can carry: none, and two different reports
UsageValues == {NoWireUsage, WireUsage(1, 1), WireUsage(2, 1)}

\* in a usage run every frame is a content delta or the end marker, with or
\* without token counts; openai's end marker is the literal [DONE]
UsageFrames(b) ==
    {[Frame("delta", <<"t">>, <<>>, "") EXCEPT !.Usage = u] : u \in UsageValues}
        \cup {[Frame("end", <<>>, <<>>, "") EXCEPT !.Usage = u] :
                 u \in IF b = "openai" THEN {NoWireUsage} ELSE UsageValues}

NoLive == [content |-> <<>>, reasoningParts |-> <<>>, reasoning |-> <<>>, finishReason |-> "",
           usage |-> NoUsage]

LiveOut(cur, chunks, stop) == [live |-> cur, chunks |-> chunks, stop |-> stop]

\* an openai producer that passes over a payload it cannot decode
openaiFrameSkipsBad(cur, f) ==
    IF f.kind = "end"
    THEN LiveOut(cur, <<DoneChunk(nonEmpty(cur.finishReason, "stop"),
                                  joinReasoningParts(cur.reasoningParts), cur.usage)>>, TRUE)
    ELSE IF f.kind = "delta" /\ f.Text # <<>>
    THEN LiveOut([cur EXCEPT !.content = @ \o f.Text],
                 <<ContentChunk(f.Text, cur.content \o f.Text)>>, FALSE)
    ELSE LiveOut(cur, <<>>, FALSE)

\* one pass of the scanner loop of the openai producer
openaiFrame(cur, f) ==
    CASE f.kind = "skip" -> LiveOut(cur, <<>>, FALSE)
      [] f.kind = "end" ->
            LiveOut(cur, <<DoneChunk(nonEmpty(cur.finishReason, "stop"),
                                      joinReasoningParts(cur.reasoningParts), cur.usage)>>, TRUE)
      [] f.kind = "bad" -> LiveOut(cur, <<ErrorChunk(Err("decode", "stream event"))>>, TRUE)
      [] f.kind = "delta" ->
            LET parts == appendReasoningPart(cur.reasoningParts, f.Thinking)
                deltaText == extractTextFromAny(f.Text)
                content == cur.content \o deltaText
                l2 == [cur EXCEPT !.finishReason = IF f.FinishReason # "" THEN f.FinishReason ELSE @,
                                   !.reasoningParts = parts,
                                   !.content = content,
                                   !.usage = IF f.Usage.present
                                             THEN toCoreUsage("openai", f.Usage) ELSE @]
            IN  LiveOut(l2,
                    (IF Len(parts) > Len(cur.reasoningParts)
                     THEN <<ReasoningChunk(TrimText(f.Thinking), joinReasoningParts(parts))>>
                     ELSE <<>>)
                    \o (IF deltaText # <<>> THEN <<ContentChunk(deltaText, content)>> ELSE <<>>),
                    FALSE)
      [] OTHER -> LiveOut(cur, <<>>, FALSE)

\* a claude producer that goes on reading after message_stop
claudeFrameKeepsReading(cur, f) ==
    CASE f.kind = "bad" -> LiveOut(cur, <<ErrorChunk(Err("decode", "stream event"))>>, TRUE)
      [] f.kind = "error" -> LiveOut(cur, <<ErrorChunk(Err("stream", "stream error"))>>, TRUE)
      [] f.kind = "delta" /\ f.Text # <<>> ->
            LiveOut([cur EXCEPT !.content = @ \o f.Text],
                    <<ContentChunk(f.Text, cur.content \o f.Text)>>, FALSE)
      [] f.kind = "end" ->
            LiveOut(cur, <<DoneChunk("stop", joinReasoningParts(cur.reasoningParts),
                                     cur.usage)>>, FALSE)
      [] OTHER -> LiveOut(cur, <<>>, FALSE)

\* one pass of the scanner loop of the claude producer
claudeFrame(cur, f) ==
    LET seen == [cur EXCEPT !.usage = IF f.Usage.present
                                      THEN toCoreUsage("claude", f.Usage) ELSE @]
    IN
    CASE f.kind = "skip" -> LiveOut(cur, <<>>, FALSE)
      [] f.kind = "bad" -> LiveOut(cur, <<ErrorChunk(Err("decode", "stream event"))>>, TRUE)
      [] f.kind = "error" -> LiveOut(seen, <<ErrorChunk(Err("stream", "stream error"))>>, TRUE)
      [] f.kind = "delta" ->
            IF f.Text # <<>>
            THEN LiveOut([seen EXCEPT !.content = @ \o f.Text],
                         <<ContentChunk(f.Text, cur.content \o f.Text)>>, FALSE)
            ELSE LiveOut(seen, <<>>, FALSE)
      [] f.kind = "thinking" ->
            LET d == TrimText(IF TrimText(f.Thinking) = <<>> THEN f.Text ELSE TrimText(f.Thinking))
                parts == appendReasoningPart(cur.reasoningParts, d)
            IN  LiveOut([seen EXCEPT !.reasoningParts = parts],
                        IF Len(parts) > Len(cur.reasoningParts)
                        THEN <<ReasoningChunk(d, joinReasoningParts(parts))>> ELSE <<>>,
                        FALSE)
      [] f.kind = "end" ->
            LiveOut(seen, <<DoneChunk("stop", joinReasoningParts(cur.reasoningParts),
                                      seen.usage)>>, TRUE)
      [] OTHER -> LiveOut(seen, <<>>, FALSE)

\* an ollama producer that sends Done on done:true and reads on
ollamaFrameKeepsReading(cur, f) ==
    CASE f.kind = "bad" -> LiveOut(cur, <<ErrorChunk(Err("decode", "stream event"))>>, TRUE)
      [] f.kind = "delta" /\ f.Text # <<>> ->
            LiveOut([cur EXCEPT !.content = @ \o f.Text],
                    <<ContentChunk(f.Text, cur.content \o f.Text)>>, FALSE)
      [] f.kind = "end" ->
            LiveOut(cur, <<DoneChunk(nonEmpty(f.FinishReason, "stop"), TrimText(cur.reasoning),
                                     toCoreUsage("ollama", f.Usage))>>, FALSE)
      [] OTHER -> LiveOut(cur, <<>>, FALSE)

\* one pass of the scanner loop of the ollama producer
ollamaFrame(cur, f) ==
    CASE f.kind = "skip" -> LiveOut(cur, <<>>, FALSE)
      [] f.kind = "bad" -> LiveOut(cur, <<ErrorChunk(Err("decode", "stream event"))>>, TRUE)
      [] f.kind \in {"delta", "end"} ->
            LET r == appendStreamSegment(cur.reasoning, TrimText(f.Thinking))
                c == appendStreamSegment(cur.content, f.Text)
                fin == IF f.kind = "end" THEN nonEmpty(f.FinishReason, "stop") ELSE cur.finishReason
                l2 == [cur EXCEPT !.reasoning = r.next, !.content = c.next, !.finishReason = fin,
                                   !.usage = toCoreUsage("ollama", f.Usage)]
            IN  LiveOut(l2,
                    (IF r.delta # <<>> THEN <<ReasoningChunk(r.delta, TrimText(r.next))>> ELSE <<>>)
                    \o (IF c.delta # <<>> THEN <<ContentChunk(c.delta, c.next)>> ELSE <<>>)
                    \o (IF f.kind = "end" THEN <<DoneChunk(fin, TrimText(r.next), l2.usage)>> ELSE <<>>),
                    f.kind = "end")
      [] OTHER -> LiveOut(cur, <<>>, FALSE)

liveFrame(b, cur, f) ==
    CASE b = "openai" -> openaiFrame(cur, f)
      [] b = "claude" -> claudeFrame(cur, f)
      [] OTHER -> ollamaFrame(cur, f)

\* the Done chunk sent when the body ends without an end marker
liveEOF(b, cur) ==
    IF b = "ollama"
    THEN DoneChunk(nonEmpty(cur.finishReason, "stop"), TrimText(cur.reasoning), cur.usage)
    ELSE IF b = "claude"
    THEN DoneChunk("stop", joinReasoningParts(cur.reasoningParts), cur.usage)
    ELSE DoneChunk(nonEmpty(cur.finishReason, "stop"), joinReasoningParts(cur.reasoningParts),
                   cur.usage)

(***************************************************************************)
(* ChatStream: the call itself, the producer goroutine and the consumer.   *)
(***************************************************************************)
\* frames a bulk response body holds beyond the channel's capacity
MaxExtraFrames == 2
\* frames of an ordinary response body
MaxFrames == 2

\* validate and buildRequestTemplate, then make(chan) and go func()
ChatStreamStart ==
    /\ spc = "start"
    /\ \E envKey \in EnvKeyValues :
         LET v == validate(backend, adapter, envKey)
             t == buildRequestTemplate(backend, params)
         IN  /\ adapter' = v.adapter
             /\ IF v.err # NoErr \/ t.err # NoErr
                THEN /\ spc' = "returned"
                     /\ streamErr' = IF v.err # NoErr THEN v.err ELSE t.err
                     /\ UNCHANGED <<chanMade, consumer>>
                ELSE /\ spc' = "branch"
                     /\ chanMade' = TRUE
                     /\ consumer' = "receiving"
                     /\ UNCHANGED streamErr
    /\ UNCHANGED <<cpc, tools, maxLoopCount, i, loc, chatResult, chatErr, transportCalls,
                   lastRequest, lastResp, errAtCalls>>
    /\ UNCHANGED <<out, closed, sendq, received, ctx, live, framesLeft, framesRead>>

simulated(p) ==
    LET t == toTools(p)
    IN  t.serverTools # {} \/ t.clientTools # {} \/ (IF p.isNil THEN FALSE ELSE p.Output)

\* the goroutine's first test: replay a Chat call, or stream live
ProducerBranch ==
    /\ spc = "branch"
    /\ IF simulated(params)
       THEN spc' = "chat" /\ cpc' = "start"
       ELSE spc' = "connect" /\ cpc' = cpc
    /\ UNCHANGED <<adapter, tools, maxLoopCount, i, loc, chatResult, chatErr, transportCalls,
                   lastRequest, lastResp, errAtCalls>>
    /\ UNCHANGED <<streamErr, chanMade, out, closed, sendq, received, consumer, ctx, live,
                   framesLeft, framesRead>>

\* a.Chat has returned inside the goroutine
ProducerAfterChat ==
    /\ spc = "chat"
    /\ cpc = "done"
    /\ sendq' = simulatedChunks(params, chatResult, chatErr)
    /\ spc' = "closing"
    /\ UNCHANGED <<adapter, chatVars>>
    /\ UNCHANGED <<streamErr, chanMade, out, closed, received, consumer, ctx, live, framesLeft, framesRead>>

\* a.client().Do(httpReq) and the status test
LiveConnect ==
    /\ spc = "connect"
    /\ \E ok \in (IF ctx THEN {FALSE} ELSE BOOLEAN) :
         IF ok
         THEN spc' = "scan" /\ sendq' = sendq
         ELSE spc' = "closing" /\ sendq' = <<ErrorChunk(Err("transport", "stream request failed"))>>
    /\ transportCalls' = transportCalls + 1
    /\ UNCHANGED <<adapter, cpc, tools, maxLoopCount, i, loc, chatResult, chatErr,
                   lastRequest, lastResp, errAtCalls>>
    /\ UNCHANGED <<streamErr, chanMade, out, closed, received, consumer, ctx, live, framesLeft, framesRead>>

\* what scanner.Scan() can yield next
ReadEvents ==
    (IF framesLeft > 0
     THEN {[read |-> "frame", frame |-> f] :
             f \in IF family = "bulk" THEN BulkFrames
                   ELSE IF family = "text" THEN TextFrames
                   ELSE IF family = "usage" THEN UsageFrames(backend)
                   ELSE FramesOf(backend)}
     ELSE {})
    \cup (IF ctx \/ (family = "bulk" /\ framesLeft > 0) THEN {} ELSE {[read |-> "eof"]})
    \cup (IF family = "bulk" /\ ~ctx THEN {} ELSE {[read |-> "error"]})

\* one pass of for scanner.Scan() { ... }, or the code after the loop
LiveRead ==
    /\ spc = "scan"
    /\ sendq = <<>>
    /\ \E ev \in ReadEvents :
         IF ev.read = "frame"
         THEN LET o == liveFrame(backend, live, ev.frame)
              IN  /\ live' = o.live
                  /\ sendq' = o.chunks
                  /\ spc' = IF o.stop THEN "closing" ELSE "scan"
                  /\ framesLeft' = framesLeft - 1
                  /\ framesRead' = Append(framesRead, ev.frame)
         ELSE /\ sendq' = IF ev.read = "eof" THEN <<liveEOF(backend, live)>>
                          ELSE <<ErrorChunk(Err("read", "stream read failed"))>>
              /\ spc' = "closing"
              /\ UNCHANGED <<live, framesLeft, framesRead>>
    /\ UNCHANGED <<adapter, chatVars>>
    /\ UNCHANGED <<streamErr, chanMade, out, closed, received, consumer, ctx>>

\* a send that makes room in a full buffer by dropping its oldest chunk
ProducerSendOverwrites ==
    /\ sendq # <<>>
    /\ out' = Append(IF Len(out) < StreamBuffer THEN out ELSE Tail(out), Head(sendq))
    /\ sendq' = Tail(sendq)
    /\ UNCHANGED <<adapter, chatVars>>
    /\ UNCHANGED <<spc, streamErr, chanMade, closed, received, consumer, ctx, live, framesLeft, framesRead>>

\* out <- chunk: blocks while the buffer is full
ProducerSend ==
    /\ sendq # <<>>
    /\ Len(out) < StreamBuffer
    /\ out' = Append(out, Head(sendq))
    /\ sendq' = Tail(sendq)
    /\ UNCHANGED <<adapter, chatVars>>
    /\ UNCHANGED <<spc, streamErr, chanMade, closed, received, consumer, ctx, live, framesLeft, framesRead>>

\* defer close(out)
ProducerClose ==
    /\ spc = "closing"
    /\ sendq = <<>>
    /\ closed' = TRUE
    /\ spc' = "exited"
    /\ UNCHANGED <<adapter, chatVars>>
    /\ UNCHANGED <<streamErr, chanMade, out, sendq, received, consumer, ctx, live, framesLeft, framesRead>>

\* the caller's range loop takes the next chunk
Recv ==
    /\ consumer = "receiving"
    /\ out # <<>>
    /\ received' = Append(received, Head(out))
    /\ out' = Tail(out)
    /\ UNCHANGED <<adapter, chatVars>>
    /\ UNCHANGED <<spc, streamErr, chanMade, closed, sendq, consumer, ctx, live, framesLeft, framesRead>>

\* the caller's range loop ends on the closed, drained channel
RecvClosed ==
    /\ consumer = "receiving"
    /\ out = <<>>
    /\ closed
    /\ consumer' = "done"
    /\ UNCHANGED <<adapter, chatVars>>
    /\ UNCHANGED <<spc, streamErr, chanMade, out, closed, sendq, received, ctx, live, framesLeft, framesRead>>

\* the caller stops receiving before the channel is closed
Abandon ==
    /\ consumer = "receiving"
    /\ consumer' = "abandoned"
    /\ UNCHANGED <<adapter, chatVars>>
    /\ UNCHANGED <<spc, streamErr, chanMade, out, closed, sendq, received, ctx, live, framesLeft, framesRead>>

\* the caller cancels ctx while the producer runs
Cancel ==
    /\ ~ctx
    /\ spc \in {"branch", "chat", "connect", "scan"}
    /\ ctx' = TRUE
    /\ UNCHANGED <<adapter, chatVars>>
    /\ UNCHANGED <<spc, streamErr, chanMade, out, closed, sendq, received, consumer, live,
                   framesLeft, framesRead>>

(***************************************************************************)
(* The synchronous entry point: one Chat invocation.                       *)
(***************************************************************************)
LoopParams == {NilParams} \cup ParamsValues(-1..MaxLoopsParam, {FALSE})

InitChatLocals ==
    /\ tools = NoTools
    /\ maxLoopCount = 0
    /\ i = 0
    /\ loc = NoLoc
    /\ chatResult = NoResult
    /\ chatErr = NoErr
    /\ transportCalls = 0
    /\ lastRequest = <<>>
    /\ lastResp = NoResponse
    /\ errAtCalls = 0

InitStreamLocals ==
    /\ streamErr = NoErr
    /\ chanMade = FALSE
    /\ out = <<>>
    /\ closed = FALSE
    /\ sendq = <<>>
    /\ received = <<>>
    /\ consumer = "none"
    /\ ctx = FALSE
    /\ live = NoLive
    /\ framesRead = <<>>

InitSegmentLocals ==
    /\ snapshot = <<>>
    /\ segments = <<>>

InitDecodeLocals ==
    /\ choice = NoChoice
    /\ rawChoice = NoChoice
    /\ decoded = NoDecoded

Init ==
    /\ family = "loop"
    /\ backend \in Backends
    /\ adapter \in AdapterValues
    /\ params \in LoopParams
    /\ mode = "Chat"
    /\ cpc = "start"
    /\ InitChatLocals
    /\ spc = "idle"
    /\ InitStreamLocals
    /\ InitSegmentLocals
    /\ InitDecodeLocals
    /\ framesLeft = 0

vars == <<family, backend, adapter, params, mode, chatVars, streamVars, segmentVars,
          decodeVars>>

Next ==
    \/ ChatStart /\ UNCHANGED <<fixedVars, streamVars>>
    \/ ChatRound /\ UNCHANGED <<fixedVars, streamVars>>
    \/ ChatBudgetExceeded /\ UNCHANGED <<fixedVars, streamVars>>

Spec == Init /\ [][Next]_vars

(***************************************************************************)
(* Both entry points on small requests: Chat, and ChatStream with its      *)
(* producer goroutine and a consumer that receives, or stops receiving.    *)
(***************************************************************************)
StreamToolValues ==
    {[kind |-> "server", Name |-> "a", Handler |-> TRUE],
     [kind |-> "client", Name |-> "b", Handler |-> FALSE],
     [kind |-> "client", Name |-> "a", Handler |-> FALSE],
     [kind |-> "server", Name |-> " ", Handler |-> TRUE],
     [kind |-> "server", Name |-> "a", Handler |-> FALSE],
     [kind |-> "nilptr", Name |-> "", Handler |-> FALSE]}

StreamParams ==
    {NilParams}
        \cup [isNil : {FALSE}, Messages : SeqsFromTo(MsgValues, 1, MaxMsgs),
              Tools : SeqsUpTo(StreamToolValues, MaxTools),
              MaxAgenticLoops : {MaxLoopsParam}, Output : {FALSE}]
        \cup [isNil : {FALSE}, Messages : {<<UserMsg>>}, Tools : {<<>>},
              MaxAgenticLoops : {0}, Output : {TRUE}]

StreamAdapters == {[APIKey |-> " k", Model |-> "m"], [APIKey |-> " k", Model |-> ""],
                   [APIKey |-> " ", Model |-> "m"]}

InitStream ==
    /\ family = "stream"
    /\ backend \in Backends
    /\ adapter \in StreamAdapters
    /\ params \in StreamParams
    /\ mode \in {"Chat", "ChatStream"}
    /\ cpc = IF mode = "Chat" THEN "start" ELSE "idle"
    /\ InitChatLocals
    /\ spc = IF mode = "ChatStream" THEN "start" ELSE "idle"
    /\ InitStreamLocals
    /\ InitSegmentLocals
    /\ InitDecodeLocals
    /\ framesLeft = MaxFrames

ProducerStep ==
    \/ ChatStreamStart /\ UNCHANGED fixedVars
    \/ ProducerBranch /\ UNCHANGED fixedVars
    \/ ChatStart /\ UNCHANGED <<fixedVars, streamVars>>
    \/ ChatRound /\ UNCHANGED <<fixedVars, streamVars>>
    \/ ChatBudgetExceeded /\ UNCHANGED <<fixedVars, streamVars>>
    \/ ProducerAfterChat /\ UNCHANGED fixedVars
    \/ LiveConnect /\ UNCHANGED fixedVars
    \/ LiveRead /\ UNCHANGED fixedVars
    \/ ProducerSend /\ UNCHANGED fixedVars
    \/ ProducerClose /\ UNCHANGED fixedVars

ConsumerStep ==
    \/ Recv /\ UNCHANGED fixedVars
    \/ RecvClosed /\ UNCHANGED fixedVars

NextStream ==
    \/ ProducerStep
    \/ ConsumerStep
    \/ Abandon /\ UNCHANGED fixedVars
    \/ Cancel /\ UNCHANGED fixedVars

\* the Go scheduler runs a goroutine that can run; a consumer that has not
\* stopped receiving takes the next chunk
StreamSpec ==
    InitStream /\ [][NextStream]_vars /\ WF_vars(ProducerStep) /\ WF_vars(ConsumerStep)

(***************************************************************************)
(* A live stream whose body holds more frames than the channel buffers.    *)
(***************************************************************************)
InitBulk ==
    /\ family = "bulk"
    /\ backend \in Backends
    /\ adapter = [APIKey |-> " k", Model |-> "m"]
    /\ params = [isNil |-> FALSE, Messages |-> <<UserMsg>>, Tools |-> <<>>,
                 MaxAgenticLoops |-> 0, Output |-> FALSE]
    /\ mode = "ChatStream"
    /\ cpc = "idle"
    /\ InitChatLocals
    /\ spc = "start"
    /\ InitStreamLocals
    /\ InitSegmentLocals
    /\ InitDecodeLocals
    /\ framesLeft = StreamBuffer + MaxExtraFrames

LiveProducerStep ==
    \/ ChatStreamStart /\ UNCHANGED fixedVars
    \/ ProducerBranch /\ UNCHANGED fixedVars
    \/ LiveConnect /\ UNCHANGED fixedVars
    \/ LiveRead /\ UNCHANGED fixedVars
    \/ ProducerSend /\ UNCHANGED fixedVars
    \/ ProducerClose /\ UNCHANGED fixedVars

NextBulk ==
    \/ LiveProducerStep
    \/ ConsumerStep
    \/ Abandon /\ UNCHANGED fixedVars
    \/ Cancel /\ UNCHANGED fixedVars

BulkSpec ==
    InitBulk /\ [][NextBulk]_vars /\ WF_vars(LiveProducerStep) /\ WF_vars(ConsumerStep)

(***************************************************************************)
(* Both entry points on a request with a server tool and a client tool,    *)
(* against a backend that may leave the id of a call out.                  *)
(***************************************************************************)
InitIds ==
    /\ family = "ids"
    /\ backend \in Backends
    /\ adapter = [APIKey |-> " k", Model |-> "m"]
    /\ params = [isNil |-> FALSE, Messages |-> <<UserMsg>>,
                 Tools |-> <<[kind |-> "server", Name |-> "a", Handler |-> TRUE],
                            [kind |-> "client", Name |-> "b", Handler |-> FALSE]>>,
                 MaxAgenticLoops |-> MaxLoopsParam, Output |-> FALSE]
    /\ mode \in {"Chat", "ChatStream"}
    /\ cpc = IF mode = "Chat" THEN "start" ELSE "idle"
    /\ InitChatLocals
    /\ spc = IF mode = "ChatStream" THEN "start" ELSE "idle"
    /\ InitStreamLocals
    /\ InitSegmentLocals
    /\ InitDecodeLocals
    /\ framesLeft = 0

ReplayProducerStep ==
    \/ ChatStreamStart /\ UNCHANGED fixedVars
    \/ ProducerBranch /\ UNCHANGED fixedVars
    \/ ChatStart /\ UNCHANGED <<fixedVars, streamVars>>
    \/ ChatRound /\ UNCHANGED <<fixedVars, streamVars>>
    \/ ChatBudgetExceeded /\ UNCHANGED <<fixedVars, streamVars>>
    \/ ProducerAfterChat /\ UNCHANGED fixedVars
    \/ ProducerSend /\ UNCHANGED fixedVars
    \/ ProducerClose /\ UNCHANGED fixedVars

NextIds ==
    \/ ReplayProducerStep
    \/ ConsumerStep

IdSpec ==
    InitIds /\ [][NextIds]_vars /\ WF_vars(ReplayProducerStep) /\ WF_vars(ConsumerStep)

(***************************************************************************)
(* A request whose one message holds an inline (base64) media part.        *)
(***************************************************************************)
PartValues == [kind : PartKinds, Data : DataValues, MimeType : MimeValues]

ContentMsg(part) == [type |-> "content", Role |-> "user", Parts |-> <<part>>]

InitParts ==
    /\ family = "parts"
    /\ backend \in Backends
    /\ adapter = [APIKey |-> " k", Model |-> "m"]
    /\ \E part \in PartValues :
         params = [isNil |-> FALSE, Messages |-> <<ContentMsg(part)>>, Tools |-> <<>>,
                   MaxAgenticLoops |-> 0, Output |-> FALSE]
    /\ mode \in {"Chat", "ChatStream"}
    /\ cpc = IF mode = "Chat" THEN "start" ELSE "idle"
    /\ InitChatLocals
    /\ spc = IF mode = "ChatStream" THEN "start" ELSE "idle"
    /\ InitStreamLocals
    /\ InitSegmentLocals
    /\ InitDecodeLocals
    /\ framesLeft = 1

PartProducerStep ==
    \/ ChatStreamStart /\ UNCHANGED fixedVars
    \/ ProducerBranch /\ UNCHANGED fixedVars
    \/ ChatStart /\ UNCHANGED <<fixedVars, streamVars>>
    \/ ChatRound /\ UNCHANGED <<fixedVars, streamVars>>
    \/ LiveConnect /\ UNCHANGED fixedVars
    \/ LiveRead /\ UNCHANGED fixedVars
    \/ ProducerSend /\ UNCHANGED fixedVars
    \/ ProducerClose /\ UNCHANGED fixedVars

NextParts ==
    \/ PartProducerStep
    \/ ConsumerStep

PartSpec ==
    InitParts /\ [][NextParts]_vars /\ WF_vars(PartProducerStep) /\ WF_vars(ConsumerStep)

(***************************************************************************)
(* A live stream that carries a reply fragment by fragment.                *)
(***************************************************************************)
MaxTextFrames == 3

InitText ==
    /\ family = "text"
    /\ backend \in Backends
    /\ adapter = [APIKey |-> " k", Model |-> "m"]
    /\ params = [isNil |-> FALSE, Messages |-> <<UserMsg>>, Tools |-> <<>>,
                 MaxAgenticLoops |-> 0, Output |-> FALSE]
    /\ mode = "ChatStream"
    /\ cpc = "idle"
    /\ InitChatLocals
    /\ spc = "start"
    /\ InitStreamLocals
    /\ InitSegmentLocals
    /\ InitDecodeLocals
    /\ framesLeft = MaxTextFrames

NextText ==
    \/ LiveProducerStep
    \/ ConsumerStep

TextSpec ==
    InitText /\ [][NextText]_vars /\ WF_vars(LiveProducerStep) /\ WF_vars(ConsumerStep)

(***************************************************************************)
(* A live stream whose frames report token counts.                         *)
(***************************************************************************)
\* frames of a response body in a usage run
MaxUsageFrames == 3

InitUsage ==
    /\ family = "usage"
    /\ backend \in Backends
    /\ adapter = [APIKey |-> " k", Model |-> "m"]
    /\ params = [isNil |-> FALSE, Messages |-> <<UserMsg>>, Tools |-> <<>>,
                 MaxAgenticLoops |-> 0, Output |-> FALSE]
    /\ mode = "ChatStream"
    /\ cpc = "idle"
    /\ InitChatLocals
    /\ spc = "start"
    /\ InitStreamLocals
    /\ InitSegmentLocals
    /\ InitDecodeLocals
    /\ framesLeft = MaxUsageFrames

NextUsage ==
    \/ LiveProducerStep
    \/ ConsumerStep

UsageSpec ==
    InitUsage /\ [][NextUsage]_vars /\ WF_vars(LiveProducerStep) /\ WF_vars(ConsumerStep)

(***************************************************************************)
(* The delta reconciler on its own: a caller that keeps one snapshot and   *)
(* feeds it fragments through appendStreamSegment, one after another.      *)
(***************************************************************************)
\* longest fragment fed
MaxFragmentLen == 2
\* fragments fed in one run
MaxFeeds == 4

SegmentTokens == {"a", "b"}
Fragments == SeqsUpTo(SegmentTokens, MaxFragmentLen)

\* next, delta := appendStreamSegment(current, incoming); current = next
Feed ==
    /\ Len(segments) < MaxFeeds
    /\ \E incoming \in Fragments :
         LET r == appendStreamSegment(snapshot, incoming)
         IN  /\ snapshot' = r.next
             /\ segments' = Append(segments, [current |-> snapshot, incoming |-> incoming,
                                              next |-> r.next, delta |-> r.delta])

InitSegment ==
    /\ family = "segment"
    /\ backend = "ollama"
    /\ adapter = [APIKey |-> " k", Model |-> "m"]
    /\ params = NilParams
    /\ mode = "none"
    /\ cpc = "idle"
    /\ InitChatLocals
    /\ spc = "idle"
    /\ InitStreamLocals
    /\ InitSegmentLocals
    /\ InitDecodeLocals
    /\ framesLeft = 0

NextSegment ==
    Feed /\ UNCHANGED <<family, backend, adapter, params, mode, chatVars, streamVars, decodeVars>>

SegmentSpec == InitSegment /\ [][NextSegment]_vars

(***************************************************************************)
(* The openai decode of one choice on its own, by Chat and by ChatStream.  *)
(***************************************************************************)
DecodeChat ==
    /\ decoded = NoDecoded
    /\ decoded' = chatDecode(choice, rawChoice)
    /\ UNCHANGED <<choice, rawChoice>>

DecodeStream ==
    /\ decoded = NoDecoded
    /\ decoded' = streamDecode(choice, rawChoice)
    /\ UNCHANGED <<choice, rawChoice>>

InitDecode ==
    /\ family = "decode"
    /\ backend = "openai"
    /\ adapter = [APIKey |-> " k", Model |-> "m"]
    /\ params = NilParams
    /\ mode = "none"
    /\ cpc = "idle"
    /\ InitChatLocals
    /\ spc = "idle"
    /\ InitStreamLocals
    /\ InitSegmentLocals
    /\ framesLeft = 0
    /\ choice \in ChoiceValues
    /\ rawChoice \in RawChoiceValues
    /\ decoded = NoDecoded

NextDecode ==
    \/ DecodeChat /\ UNCHANGED <<family, backend, adapter, params, mode, chatVars, streamVars, segmentVars>>
    \/ DecodeStream /\ UNCHANGED <<family, backend, adapter, params, mode, chatVars, streamVars, segmentVars>>

DecodeSpec == InitDecode /\ [][NextDecode]_vars

(***************************************************************************)
(* extractTextFromAny on a decoded JSON value: nil, string, object, array. *)
(* The walk over an object's remaining keys is a range over a Go map,      *)
(* whose order is not fixed: the operator yields every result a call can   *)
(* return.                                                                 *)
(***************************************************************************)
JNil == [kind |-> "nil"]
JString(t) == [kind |-> "string", s |-> t]
JMap(f) == [kind |-> "map", fields |-> f]
JList(items) == [kind |-> "list", items |-> items]

priorityKeys == <<"text", "output_text", "refusal", "content", "message", "delta", "value",
                  "choices">>
ignoredKeys == {"role", "type", "id", "index", "finish_reason", "logprobs", "model", "object",
                "created", "tool_calls", "function", "name", "reasoning", "reasoning_content",
                "thinking", "reasoning_text", "thinking_text"}

RECURSIVE extractTextOutcomes(_), priorityWalk(_, _), rangeWalk(_, _), listWalk(_)
extractTextOutcomes(value) ==
    CASE value.kind = "nil" -> {<<>>}
      [] value.kind = "string" -> {extractTextFromAny(value.s)}
      [] value.kind = "map" -> priorityWalk(value.fields, 1)
      [] value.kind = "list" -> listWalk(value.items)

\* for _, key := range priorityKeys
priorityWalk(f, k) ==
    IF k > Len(priorityKeys) THEN rangeWalk(f, DOMAIN f \ ignoredKeys)
    ELSE IF priorityKeys[k] \in DOMAIN f
    THEN LET texts == extractTextOutcomes(f[priorityKeys[k]])
         IN  (texts \ {<<>>}) \cup (IF <<>> \in texts THEN priorityWalk(f, k + 1) ELSE {})
    ELSE priorityWalk(f, k + 1)

\* for key, candidate := range typed: any key not yet visited may come next
rangeWalk(f, left) ==
    IF left = {} THEN {<<>>}
    ELSE UNION {LET texts == extractTextOutcomes(f[key])
                IN  (texts \ {<<>>})
                        \cup (IF <<>> \in texts THEN rangeWalk(f, left \ {key}) ELSE {}) :
                key \in left}

\* case []any: the items' texts, concatenated
listWalk(items) ==
    IF items = <<>> THEN {<<>>}
    ELSE {t \o rest : t \in extractTextOutcomes(Head(items)), rest \in listWalk(Tail(items))}

\* decoded values: leaves, objects of leaves, arrays of leaves, and an object
\* nested under the priority key "delta"
JsonTexts == {<<" ">>, <<"x">>, <<"y">>}
JsonLeaves == {JNil} \cup {JString(t) : t \in JsonTexts}
JsonKeys == {"text", "role", "a", "b"}
MapsOver(keys, values) == {JMap(f) : f \in UNION {[K -> values] : K \in SUBSET keys}}
MaxItems == 2
JsonValues ==
    JsonLeaves
        \cup MapsOver(JsonKeys, JsonLeaves)
        \cup {JList(items) : items \in SeqsUpTo(JsonLeaves, MaxItems)}
        \cup MapsOver({"delta"}, MapsOver({"a", "b"}, JsonLeaves))

MaxExtractCalls == 2

Extracted(results) == [kind |-> "extracted", results |-> results]

\* one call of extractTextFromAny on the value
ExtractText ==
    /\ Len(decoded.results) < MaxExtractCalls
    /\ \E t \in extractTextOutcomes(rawChoice) :
          decoded' = Extracted(Append(decoded.results, t))
    /\ UNCHANGED <<choice, rawChoice>>

InitExtract ==
    /\ family = "extract"
    /\ backend = "openai"
    /\ adapter = [APIKey |-> " k", Model |-> "m"]
    /\ params = NilParams
    /\ mode = "none"
    /\ cpc = "idle"
    /\ InitChatLocals
    /\ spc = "idle"
    /\ InitStreamLocals
    /\ InitSegmentLocals
    /\ framesLeft = 0
    /\ choice = NoChoice
    /\ rawChoice \in JsonValues
    /\ decoded = Extracted(<<>>)

NextExtract ==
    ExtractText /\ UNCHANGED <<family, backend, adapter, params, mode, chatVars, streamVars, segmentVars>>

ExtractSpec == InitExtract /\ [][NextExtract]_vars

(***************************************************************************)
(* Properties of Chat.                                                     *)
(***************************************************************************)
ConfigErrorKinds == {"validation", "params", "message", "tool", "duplicate"}

\* the request passed validate and buildRequestTemplate
Accepted == cpc = "loop" \/ (cpc = "done" /\ chatErr.kind \notin ConfigErrorKinds)

HasServerTool(p) ==
    IF p.isNil THEN FALSE ELSE \E k \in 1..Len(p.Tools) : p.Tools[k].kind = "server"

Budget(p) ==
    IF p.isNil THEN defaultMaxAgenticLoops
    ELSE IF p.MaxAgenticLoops > 0 THEN p.MaxAgenticLoops ELSE defaultMaxAgenticLoops

IsToolCallTurn(m) == m.type = "tool_call"
IsToolResultTurn(m) == m.type = "tool_result"
IsServerCall(c) == c.Name \in tools.server
IsClientCall(c) == c.Name \in tools.client
Registered(c) == IsServerCall(c) \/ IsClientCall(c)

\* C3: an accepted request without a server tool gets a loop bound of 1 and
\* exactly one transport call, whatever MaxAgenticLoops is and whatever the
\* backend answers: none while Chat has not yet called, one once it returned.
C3_OneCallWithoutServerTools ==
    (Accepted /\ ~HasServerTool(params)) =>
        /\ maxLoopCount = 1
        /\ transportCalls = IF cpc = "done" THEN 1 ELSE 0

\* a client-tools-only request with MaxAgenticLoops = MaxLoopsParam whose
\* one call ended with pending client calls
C3_Witness ==
    /\ cpc = "done"
    /\ ~HasServerTool(params)
    /\ IF params.isNil THEN FALSE
       ELSE params.MaxAgenticLoops = MaxLoopsParam /\ Len(params.Tools) > 0
    /\ transportCalls = 1
    /\ IF chatResult.kind = "result" THEN Len(chatResult.ToolCalls) > 0 ELSE FALSE

\* C4: with a server tool registered Chat makes at most MaxAgenticLoops
\* transport calls (8 when MaxAgenticLoops is not positive); when every round
\* of the budget was answered with server-tool calls only (i counts those
\* rounds) Chat returns the loop-budget error and no result.
C4_BudgetBoundsCalls ==
    (Accepted /\ HasServerTool(params)) =>
        /\ transportCalls <= Budget(params)
        /\ (cpc = "done" /\ i = Budget(params)) =>
              (chatErr.kind = "budget" /\ chatResult = NoResult)
        /\ (cpc = "done" /\ chatErr.kind = "budget") =>
              (chatResult = NoResult /\ transportCalls = Budget(params) /\ i = Budget(params))

\* the default budget of 8 rounds is used up
C4_Witness ==
    /\ cpc = "done"
    /\ chatErr.kind = "budget"
    /\ HasServerTool(params)
    /\ params.MaxAgenticLoops <= 0
    /\ transportCalls = defaultMaxAgenticLoops

OneServerTool(p) ==
    IF p.isNil THEN FALSE ELSE Len(p.Tools) = 1 /\ p.Tools[1].kind = "server"

\* Chat completed normally after exactly one handler run
CalledOnceThenStopped ==
    /\ cpc = "done"
    /\ OneServerTool(params)
    /\ Len(loc.log) = 1
    /\ IF chatResult.kind = "result" THEN Len(chatResult.ToolCalls) = 0 ELSE FALSE

\* the turns of m from position n + 1: tool call, tool result, final text
ToolRoundTrip(m, n) ==
    /\ Len(m) = n + 3
    /\ m[n + 1].type = "tool_call"
    /\ Len(m[n + 1].ToolCalls) = 1
    /\ m[n + 2].type = "tool_result"
    /\ m[n + 2].ToolCallID = m[n + 1].ToolCalls[1].ID
    /\ m[n + 2].Name = m[n + 1].ToolCalls[1].Name
    /\ m[n + 3] = AssistantText(chatResult.Text)

\* C5 as stated: one server tool called once, then the model stops: two
\* transport calls and the conversation is the original messages, the
\* tool-call turn, the tool-result turn and the final text, nothing else.
C5_Original ==
    CalledOnceThenStopped =>
        LET m == chatResult.Messages
            n == Len(params.Messages)
        IN  /\ transportCalls = 2
            /\ Len(m) >= n
            /\ SubSeq(m, 1, n) = params.Messages
            /\ ToolRoundTrip(m, n)

\* C5: as C5_Original, except that the ollama adapter puts one assistant
\* text turn before the tool-call turn when the answer that carries the
\* tool call also carries non-blank text.
C5_RoundTripConversation ==
    CalledOnceThenStopped =>
        LET m == chatResult.Messages
            n == Len(params.Messages)
        IN  /\ transportCalls = 2
            /\ Len(m) >= n + 3
            /\ SubSeq(m, 1, n) = params.Messages
            /\ IF m[n + 1].type = "text"
               THEN /\ backend = "ollama"
                    /\ m[n + 1].Role = "assistant"
                    /\ TrimText(m[n + 1].Content) # <<>>
                    /\ ToolRoundTrip(m, n + 1)
               ELSE ToolRoundTrip(m, n)

\* ollama, with text beside the tool call
C5_Witness ==
    /\ CalledOnceThenStopped
    /\ backend = "ollama"
    /\ Len(chatResult.Messages) = Len(params.Messages) + 4

\* the index of the last tool-call turn of m
LastToolCallTurn(m) ==
    CHOOSE k \in 1..Len(m) :
        IsToolCallTurn(m[k]) /\ \A j \in (k + 1)..Len(m) : ~IsToolCallTurn(m[j])

ReturnedPending ==
    cpc = "done" /\ (IF chatResult.kind = "result" THEN Len(chatResult.ToolCalls) > 0 ELSE FALSE)

\* C6: when a turn calls client tools (alone or beside server tools) Chat
\* returns in that round: no error, finish reason "tool_calls", the pending
\* calls are exactly the turn's client calls in order, the conversation ends
\* with the result turns of the turn's server calls in order, and the number
\* of transport calls is the number of rounds so far.
C6_MixedTurnStops ==
    ReturnedPending =>
        LET m == chatResult.Messages
            k == LastToolCallTurn(m)
            srv == SelectSeq(m[k].ToolCalls, IsServerCall)
            cli == SelectSeq(m[k].ToolCalls, IsClientCall)
        IN  /\ chatErr = NoErr
            /\ chatResult.FinishReason = "tool_calls"
            /\ chatResult.ToolCalls = cli
            /\ Len(m) = k + Len(srv)
            /\ \A j \in 1..Len(srv) :
                  /\ IsToolResultTurn(m[k + j])
                  /\ m[k + j].ToolCallID = srv[j].ID
                  /\ m[k + j].Name = srv[j].Name
            /\ transportCalls = i + 1
            /\ errAtCalls = transportCalls

\* a client call followed by a server call in one turn
C6_Witness ==
    /\ ReturnedPending
    /\ LET m == chatResult.Messages
           k == LastToolCallTurn(m)
       IN  /\ Len(m[k].ToolCalls) = 2
           /\ IsClientCall(m[k].ToolCalls[1])
           /\ IsServerCall(m[k].ToolCalls[2])
           /\ IsToolResultTurn(m[Len(m)])

\* C7: a turn that calls a name registered neither as server nor as client
\* tool ends the invocation: Chat has returned the unregistered-tool error
\* and no result, the turn is the conversation's last tool-call turn, and no
\* transport call was made after the error.
C7_UnregisteredIsFatal ==
    \A k \in 1..Len(loc.conversation) :
        (IF IsToolCallTurn(loc.conversation[k])
         THEN \E n \in 1..Len(loc.conversation[k].ToolCalls) :
                 ~Registered(loc.conversation[k].ToolCalls[n])
         ELSE FALSE) =>
            /\ cpc = "done"
            /\ chatErr.kind = "unregistered"
            /\ chatResult = NoResult
            /\ errAtCalls = transportCalls
            /\ k = LastToolCallTurn(loc.conversation)

\* the unregistered call came after a handler had run in the same turn
C7_Witness ==
    /\ cpc = "done"
    /\ chatErr.kind = "unregistered"
    /\ Len(loc.log) > 0
    /\ transportCalls = 1

\* the tool results a request carrying msgs hands to the backend
SentToolResults(msgs) ==
    {[id |-> msgs[k].id, content |-> msgs[k].content] :
        k \in {n \in 1..Len(msgs) : msgs[n].kind = "tool_result"}}
    \cup UNION {{[id |-> msgs[k].blocks[n].id, content |-> msgs[k].blocks[n].content] :
                    n \in 1..Len(msgs[k].blocks)} :
                k \in {n \in 1..Len(msgs) : msgs[n].kind = "tool_results"}}

AllServerCalls(m) == \A n \in 1..Len(m.ToolCalls) : IsServerCall(m.ToolCalls[n])

\* the tool-call turns of conv whose calls all name server tools
ServerOnlyTurns(conv) ==
    {k \in 1..Len(conv) : IF IsToolCallTurn(conv[k]) THEN AllServerCalls(conv[k]) ELSE FALSE}

\* C8: a failing handler does not end Chat.  The j-th handler run has the
\* j-th result turn; when the handler failed its content is "tool_error: "
\* followed by the error's message.  Between rounds every result turn is in
\* the messages of the next request, and a chat completed by a text answer
\* has sent them all.  Chat never returns a handler's error, and the loop
\* counter has advanced once for every turn that called server tools only.
C8_HandlerErrorFedBack ==
    LET rs == SelectSeq(loc.conversation, IsToolResultTurn)
        sent(msgs) == \A j \in 1..Len(rs) :
                         [id |-> rs[j].ToolCallID, content |-> rs[j].Content] \in SentToolResults(msgs)
    IN  /\ Len(rs) = Len(loc.log)
        /\ \A j \in 1..Len(rs) :
              LET h == Handler(loc.log[j].Name, loc.log[j].Arguments)
              IN  h.err # NoErr =>
                     /\ Len(rs[j].Content) > 0
                     /\ Head(rs[j].Content) = "tool_error: "
                     /\ Tail(rs[j].Content) = h.err.detail
        /\ cpc = "loop" => sent(loc.messages)
        /\ (cpc = "done" /\ chatErr = NoErr /\ ~ReturnedPending) => sent(lastRequest)
        /\ chatErr.kind # "handler"
        /\ Accepted => i = Cardinality(ServerOnlyTurns(loc.conversation))

\* a handler failed, its tool_error result went out with the next request,
\* and the chat completed with a text answer
C8_Witness ==
    /\ cpc = "done"
    /\ chatErr = NoErr
    /\ ~ReturnedPending
    /\ transportCalls = 2
    /\ \E e \in SentToolResults(lastRequest) :
          Len(e.content) > 0 /\ Head(e.content) = "tool_error: "

BlankRole(p) ==
    IF p.isNil THEN FALSE ELSE \E k \in 1..Len(p.Messages) : TrimSpace(p.Messages[k].Role) = ""

InvalidTool(t) ==
    \/ t.kind = "nilptr"
    \/ TrimSpace(t.Name) = ""
    \/ (t.kind = "server" /\ ~t.Handler)

SameName(t, u) == t.kind # "nilptr" /\ u.kind # "nilptr" /\ t.Name = u.Name

DuplicateNames(p) ==
    IF p.isNil THEN FALSE
    ELSE \E j, k \in 1..Len(p.Tools) : j < k /\ SameName(p.Tools[j], p.Tools[k])

\* what validate and buildRequestTemplate reject; the key is looked at once
\* validate has tried the environment, and ollama does not ask for one
InvalidConfiguration ==
    \/ TrimSpace(adapter.Model) = ""
    \/ (backend # "ollama" /\ TrimSpace(adapter.APIKey) = "")
    \/ params.isNil
    \/ BlankRole(params)
    \/ (IF params.isNil THEN FALSE
        ELSE \E k \in 1..Len(params.Tools) : InvalidTool(params.Tools[k]))
    \/ DuplicateNames(params)

Sent == received \o out

EndsWithTerminal(cs) == IF Len(cs) = 0 THEN FALSE ELSE IsTerminalChunk(cs[Len(cs)])

\* a terminal chunk is the last chunk sent and nothing waits to be sent after
\* it; the producer's only step after it is the close; a closed channel has
\* carried a terminal chunk
TerminalChunkIsLast ==
    chanMade =>
        /\ \A k \in 1..Len(Sent) :
              IsTerminalChunk(Sent[k]) => (k = Len(Sent) /\ sendq = <<>>)
        /\ EndsWithTerminal(Sent) => spc \in {"closing", "exited"}
        /\ closed => EndsWithTerminal(Sent)

StreamEnded ==
    /\ consumer = "done"
    /\ closed
    /\ out = <<>>
    /\ EndsWithTerminal(received)

\* C1: on a channel ChatStream returned, at most one terminal chunk (Done
\* or Error) is ever sent, it is the last chunk sent and the close follows
\* it; and a consumer that keeps receiving gets a finite sequence that ends
\* with that terminal chunk and then sees the channel closed.
C1_StreamTerminatesOnce ==
    /\ []TerminalChunkIsLast
    /\ chanMade ~> (consumer = "abandoned" \/ StreamEnded)

\* the consumer has seen chunks, then Done, then the close
C1_Witness ==
    /\ StreamEnded
    /\ Len(received) >= 3
    /\ received[Len(received)].Type = "done"

\* C2 as stated: once the consumer has stopped receiving, or the context is
\* cancelled, the producer goroutine eventually exits and closes the channel.
C2_ProducerExits == (chanMade /\ (consumer = "abandoned" \/ ctx)) ~> closed

\* the producer blocked on a send into the full buffer nobody drains
C2_ProducerBlocked ==
    /\ consumer = "abandoned"
    /\ Len(out) = StreamBuffer
    /\ sendq # <<>>
    /\ ~closed

\* C10: with two tools of the same name in the request, Chat and ChatStream
\* make no transport call and run no handler; Chat returns a configuration
\* error and no result; ChatStream returns a configuration error, makes no
\* channel and starts no producer.
C10_DuplicateNamesRejected ==
    DuplicateNames(params) =>
        /\ transportCalls = 0
        /\ loc.log = <<>>
        /\ cpc \in {"idle", "start", "done"}
        /\ cpc = "done" => (chatErr.kind \in ConfigErrorKinds /\ chatResult = NoResult)
        /\ spc \in {"idle", "start", "returned"}
        /\ spc = "returned" => streamErr.kind \in ConfigErrorKinds
        /\ ~chanMade
        /\ consumer = "none"

\* ChatStream turned down a server tool and a client tool of one name
C10_Witness ==
    /\ mode = "ChatStream"
    /\ spc = "returned"
    /\ streamErr.kind = "duplicate"
    /\ ~chanMade
    /\ Len(params.Tools) = 2
    /\ params.Tools[1].kind = "server"
    /\ params.Tools[2].kind = "client"

(***************************************************************************)
(* C11: every Chat call that has returned handed back exactly one of a     *)
(* result and an error: a ChatResult with a nil error, or no ChatResult    *)
(* with an error, whichever path through the loop it took.                 *)
(***************************************************************************)
ReturnedResult == chatResult # NoResult /\ chatErr = NoErr
ReturnedError == chatResult = NoResult /\ chatErr # NoErr

C11_ResultXorError ==
    cpc = "done" => (ReturnedResult \/ ReturnedError) /\ ~(ReturnedResult /\ ReturnedError)

\* an error returned from inside the loop, after a handler has run
C11_Witness ==
    /\ cpc = "done"
    /\ ReturnedError
    /\ transportCalls >= 1
    /\ Len(loc.log) >= 1

(***************************************************************************)
(* C12: a failed transport call ends Chat at once with that error: the     *)
(* failed request is not sent again, no further transport call is made and *)
(* no further handler runs.                                                *)
(***************************************************************************)
TransportFailed == lastResp = TransportError

C12_ReturnsTransportError ==
    TransportFailed =>
        /\ cpc = "done"
        /\ chatErr = Err("transport", "request failed")
        /\ chatResult = NoResult
        /\ errAtCalls = transportCalls

C12_NoRetry ==
    /\ []C12_ReturnsTransportError
    /\ [][TransportFailed => UNCHANGED <<transportCalls, lastRequest, loc>>]_vars

\* the transport failed in a later round, after a handler had run
C12_Witness ==
    /\ TransportFailed
    /\ transportCalls >= 2
    /\ Len(loc.log) >= 1

(***************************************************************************)
(* Properties of the delta reconciler.                                     *)
(***************************************************************************)
Incomings == [k \in 1..Len(segments) |-> segments[k].incoming]
Deltas == [k \in 1..Len(segments) |-> segments[k].delta]

StartsWith(t, p) == Len(p) <= Len(t) /\ \A k \in 1..Len(p) : t[k] = p[k]
SuffixFrom(t, n) == [k \in 1..(Len(t) - n) |-> t[n + k]]

\* the call grew the snapshot by part of a longer fragment
CumulativeStep(c) ==
    c.current # <<>> /\ StartsWith(c.incoming, c.current) /\ Len(c.incoming) > Len(c.current)
\* the call appended a fragment unrelated to the snapshot
IncrementalStep(c) ==
    c.incoming # <<>> /\ ~StartsWith(c.incoming, c.current) /\ ~StartsWith(c.current, c.incoming)
\* the call was fed a prefix of the snapshot, or the snapshot itself
EchoStep(c) == c.incoming # <<>> /\ StartsWith(c.current, c.incoming)

\* C13: whatever fragments were fed from the empty snapshot (cumulative
\* snapshots, increments, repeats, any mixture), the deltas returned so far
\* concatenate to the snapshot, and each call returned next = current + delta.
C13_RoundTrip ==
    /\ Join(Deltas, <<>>) = snapshot
    /\ \A k \in 1..Len(segments) : segments[k].next = segments[k].current \o segments[k].delta

\* a mixture: a cumulative step, an incremental step and a repeat
C13_Witness ==
    /\ \E k \in 1..Len(segments) : CumulativeStep(segments[k])
    /\ \E k \in 1..Len(segments) : IncrementalStep(segments[k])
    /\ \E k \in 2..Len(segments) : segments[k].incoming = segments[k - 1].incoming
                                    /\ segments[k].incoming # <<>>

\* C14: each call follows the four rules in their order: an empty fragment
\* changes nothing; else a fragment that starts with the snapshot replaces
\* it and the delta is the suffix beyond its length; else a fragment the
\* snapshot starts with changes nothing; else the fragment is appended and
\* is the delta.
FollowsRules(c) ==
    IF c.incoming = <<>> THEN c.next = c.current /\ c.delta = <<>>
    ELSE IF StartsWith(c.incoming, c.current)
    THEN c.next = c.incoming /\ c.delta = SuffixFrom(c.incoming, Len(c.current))
    ELSE IF StartsWith(c.current, c.incoming) THEN c.next = c.current /\ c.delta = <<>>
    ELSE c.next = c.current \o c.incoming /\ c.delta = c.incoming

C14_RulesInOrder ==
    /\ \A k \in 1..Len(segments) : FollowsRules(segments[k])
    /\ \A k \in 1..Len(segments) :
         segments[k].current = (IF k = 1 THEN <<>> ELSE segments[k - 1].next)
    /\ snapshot = (IF segments = <<>> THEN <<>> ELSE segments[Len(segments)].next)

\* one run in which the second, third and fourth rule each decided a call
C14_Witness ==
    /\ \E k \in 1..Len(segments) :
         CumulativeStep(segments[k]) /\ segments[k].delta # segments[k].incoming
    /\ \E k \in 1..Len(segments) :
         EchoStep(segments[k]) /\ Len(segments[k].incoming) < Len(segments[k].current)
    /\ \E k \in 1..Len(segments) : IncrementalStep(segments[k])

\* the same fragment fed twice in a row
Repeat(k) == k >= 2 /\ segments[k].incoming = segments[k - 1].incoming
Absorbed(c) == c.next = c.current /\ c.delta = <<>>

\* the fragment is empty, starts with the snapshot, or the snapshot starts with it
PrefixRelated(current, incoming) ==
    incoming = <<>> \/ StartsWith(incoming, current) \/ StartsWith(current, incoming)

\* C15 as stated: whatever the snapshot and the fragment, the second of two
\* feeds of the same fragment leaves the snapshot unchanged and returns an
\* empty delta.
C15_Original ==
    \A k \in 1..Len(segments) : Repeat(k) => Absorbed(segments[k])

\* C15: the second of two feeds of the same fragment leaves the snapshot
\* unchanged and returns an empty delta when the fragment is empty, starts
\* with the snapshot it was first fed to, or is a prefix of that snapshot;
\* a fragment that is none of these is appended again, with itself as delta.
C15_RepeatsAbsorbed ==
    \A k \in 1..Len(segments) :
        Repeat(k) =>
            IF PrefixRelated(segments[k - 1].current, segments[k].incoming)
            THEN Absorbed(segments[k])
            ELSE /\ segments[k].next = segments[k].current \o segments[k].incoming
                 /\ segments[k].delta = segments[k].incoming

\* a fragment fed twice and absorbed, and an unrelated fragment fed twice
C15_Witness ==
    /\ \E k \in 1..Len(segments) :
         Repeat(k) /\ segments[k].incoming # <<>> /\ Absorbed(segments[k])
    /\ \E k \in 1..Len(segments) :
         Repeat(k) /\ IncrementalStep(segments[k - 1]) /\ ~Absorbed(segments[k])

\* C16: when every fragment fed from the empty snapshot is a non-empty
\* increment, each delta returned is its fragment and the snapshot is the
\* concatenation of the fragments.
AllNonEmpty == \A k \in 1..Len(segments) : segments[k].incoming # <<>>

C16_IncrementsKept ==
    AllNonEmpty =>
        /\ \A k \in 1..Len(segments) : segments[k].delta = segments[k].incoming
        /\ snapshot = Join(Incomings, <<>>)

\* the increments "a", "a": the second is dropped, the snapshot is "a"
C16_IncrementLost ==
    /\ Incomings = << <<"a">>, <<"a">> >>
    /\ Deltas = << <<"a">>, <<>> >>
    /\ snapshot = <<"a">>

(***************************************************************************)
(* Properties of the chunks of a stream.                                   *)
(***************************************************************************)
ChunksOf(cs, type) == SelectSeq(cs, LAMBDA c : c.Type = type)
DeltasOf(cs) == [k \in 1..Len(cs) |-> cs[k].Delta]
Concat(ts) == Join(ts, <<>>)

\* the producer has sent its terminal chunk
Completed == chanMade /\ sendq = <<>> /\ EndsWithTerminal(Sent)
LastSent == Sent[Len(Sent)]
ContentChunks == ChunksOf(Sent, "content")
ReasoningChunks == ChunksOf(Sent, "reasoning")

\* C17: in a stream completed by its Done chunk, live or replayed, the
\* deltas of the Content chunks concatenate to the cumulative text of the
\* last Content chunk, and the deltas of the Reasoning chunks concatenate to
\* the cumulative reasoning of the last Reasoning chunk and to that of the
\* Done chunk.
C17_DeltasGiveCumulative ==
    (Completed /\ LastSent.Type = "done") =>
        /\ ContentChunks # <<>> =>
              Concat(DeltasOf(ContentChunks)) = ContentChunks[Len(ContentChunks)].Content
        /\ ReasoningChunks # <<>> =>
              /\ Concat(DeltasOf(ReasoningChunks))
                    = ReasoningChunks[Len(ReasoningChunks)].Reasoning
              /\ Concat(DeltasOf(ReasoningChunks)) = LastSent.Reasoning

\* a live openai stream whose two reasoning deltas do not give the
\* cumulative reasoning of the second chunk, nor that of the Done chunk
C17_ReasoningDiverges ==
    /\ Completed
    /\ backend = "openai"
    /\ ~simulated(params)
    /\ LastSent.Type = "done"
    /\ Len(ReasoningChunks) = 2
    /\ Concat(DeltasOf(ReasoningChunks)) # ReasoningChunks[2].Reasoning
    /\ Concat(DeltasOf(ReasoningChunks)) # LastSent.Reasoning

\* a live stream that ended with a Done chunk
LiveCompleted ==
    /\ mode = "ChatStream"
    /\ ~simulated(params)
    /\ Completed
    /\ LastSent.Type = "done"

\* a frame that carries reasoning text and nothing else
IsReasoningFrame(f) ==
    /\ f.kind = (IF backend = "claude" THEN "thinking" ELSE "delta")
    /\ f.Text = <<>>
    /\ f.Thinking # <<>>
IsEndFrame(f) == f.kind = "end" /\ f.Text = <<>> /\ f.Thinking = <<>>

\* the body held reasoning frames only, then at most an end marker
ReasoningOnly ==
    /\ framesRead # <<>>
    /\ IsReasoningFrame(framesRead[1])
    /\ \A k \in 2..Len(framesRead) :
          \/ IsReasoningFrame(framesRead[k])
          \/ k = Len(framesRead) /\ IsEndFrame(framesRead[k])

ReasoningFrames == SelectSeq(framesRead, IsReasoningFrame)
ReasoningFragments == [k \in 1..Len(ReasoningFrames) |-> ReasoningFrames[k].Thinking]
FragmentsUpTo(k) == Concat(SubSeq(ReasoningFragments, 1, k))

\* no fragment after the first starts with, or is a prefix of, the text before it
PureIncrements ==
    \A k \in 2..Len(ReasoningFragments) :
        ~PrefixRelated(FragmentsUpTo(k - 1), ReasoningFragments[k])

\* two or more fragments without outer whitespace, each after the first
\* repeating the one before it and extending it
CumulativeSnapshots ==
    /\ Len(ReasoningFragments) >= 2
    /\ \A k \in 1..Len(ReasoningFragments) :
          TrimText(ReasoningFragments[k]) = ReasoningFragments[k]
    /\ \A k \in 2..Len(ReasoningFragments) :
          /\ StartsWith(ReasoningFragments[k], ReasoningFragments[k - 1])
          /\ Len(ReasoningFragments[k]) > Len(ReasoningFragments[k - 1])

\* C18: when a live stream's backend sends pure-incremental reasoning
\* fragments, the i-th Reasoning chunk carries the i-th fragment unchanged
\* as its delta, whitespace included, and the concatenation of the first i
\* fragments as its cumulative reasoning; the Done chunk carries the
\* concatenation of all of them.
C18_WhitespacePreserved ==
    (LiveCompleted /\ ReasoningOnly /\ PureIncrements) =>
        /\ Len(ReasoningChunks) = Len(ReasoningFragments)
        /\ \A k \in 1..Len(ReasoningChunks) :
              k <= Len(ReasoningFragments) =>
                  /\ ReasoningChunks[k].Delta = ReasoningFragments[k]
                  /\ ReasoningChunks[k].Reasoning = FragmentsUpTo(k)
        /\ LastSent.Reasoning = FragmentsUpTo(Len(ReasoningFragments))

\* ollama sent "th", " u": the second delta and the final reasoning lost the space
C18_SpaceLost ==
    /\ LiveCompleted
    /\ backend = "ollama"
    /\ ReasoningFragments = << <<"th">>, <<" ", "u">> >>
    /\ ReasoningOnly
    /\ DeltasOf(ReasoningChunks) = << <<"th">>, <<"u">> >>
    /\ LastSent.Reasoning = <<"th", "u">>

\* C19: when claude sends thinking as cumulative snapshots, each Reasoning
\* chunk's delta is the suffix the snapshot added, its cumulative reasoning
\* is the snapshot, and the Done chunk carries the last snapshot.
C19_SnapshotsGiveSuffixes ==
    (LiveCompleted /\ backend = "claude" /\ ReasoningOnly /\ CumulativeSnapshots) =>
        /\ Len(ReasoningChunks) = Len(ReasoningFragments)
        /\ \A k \in 1..Len(ReasoningChunks) :
              k <= Len(ReasoningFragments) =>
                  /\ ReasoningChunks[k].Delta =
                        SuffixFrom(ReasoningFragments[k],
                                   IF k = 1 THEN 0 ELSE Len(ReasoningFragments[k - 1]))
                  /\ ReasoningChunks[k].Reasoning = ReasoningFragments[k]
        /\ LastSent.Reasoning = ReasoningFragments[Len(ReasoningFragments)]

\* claude sent "th", "th u": the second delta is the whole snapshot and the
\* cumulative reasoning holds both snapshots
C19_SnapshotRepeated ==
    /\ LiveCompleted
    /\ backend = "claude"
    /\ ReasoningOnly
    /\ ReasoningFragments = << <<"th">>, <<"th", " ", "u">> >>
    /\ DeltasOf(ReasoningChunks) = << <<"th">>, <<"th", " ", "u">> >>
    /\ LastSent.Reasoning = <<"th", "\n", "th", " ", "u">>

(***************************************************************************)
(* Properties of the replayed stream.                                      *)
(***************************************************************************)
\* ChatStream took the tools-or-schema branch
Replaying == mode = "ChatStream" /\ chanMade /\ simulated(params)

\* every chunk the producer has sent or is about to send
Emitted == Sent \o sendq

\* the replayed Chat call has returned and its chunks are lined up
Replayed == Replaying /\ spc \in {"closing", "exited"}

InputLen == IF params.isNil THEN 0 ELSE Len(params.Messages)
AddedTurns == SubSeq(chatResult.Messages, InputLen + 1, Len(chatResult.Messages))

HasReasoning == chatResult.Reasoning # <<>>
\* the chunks between the optional Reasoning chunk and the Done chunk
TurnPart == SubSeq(Emitted, IF HasReasoning THEN 2 ELSE 1, Len(Emitted) - 1)

ChunkTypeOfTurn(m) == IF m.type = "text" THEN "content" ELSE m.type

FramedByReasoningAndDone ==
    /\ Len(Emitted) >= (IF HasReasoning THEN 2 ELSE 1)
    /\ HasReasoning => Emitted[1] = ReasoningChunk(chatResult.Reasoning, chatResult.Reasoning)
    /\ Emitted[Len(Emitted)].Type = "done"
    /\ Emitted[Len(Emitted)].Reasoning = chatResult.Reasoning

\* C20 as stated: nothing is emitted before the loop has completed, and
\* then one Reasoning chunk if the reasoning is non-empty, exactly one
\* Content, ToolCall or ToolResult chunk per added turn in conversation
\* order, and one Done chunk.
C20_Original ==
    /\ (Replaying /\ cpc # "done") => Emitted = <<>>
    /\ (Replayed /\ chatErr = NoErr) =>
          /\ FramedByReasoningAndDone
          /\ Len(TurnPart) = Len(AddedTurns)
          /\ \A k \in 1..Len(TurnPart) :
                k <= Len(AddedTurns) => TurnPart[k].Type = ChunkTypeOfTurn(AddedTurns[k])

\* the chunks of one added turn
TurnChunks(m) ==
    CASE m.type = "text" -> <<[Type |-> "content", Delta |-> m.Content, Content |-> m.Content]>>
      [] m.type = "tool_call" ->
            [k \in 1..Len(m.ToolCalls) |-> [Type |-> "tool_call", ToolCall |-> m.ToolCalls[k]]]
      [] m.type = "tool_result" ->
            <<[Type |-> "tool_result", ToolCallID |-> m.ToolCallID, Content |-> m.Content]>>

RECURSIVE TurnsChunks(_)
TurnsChunks(ms) == IF ms = <<>> THEN <<>> ELSE TurnChunks(Head(ms)) \o TurnsChunks(Tail(ms))

\* C20: nothing is emitted before the loop has completed; after a loop that
\* returned a result: one Reasoning chunk if the reasoning is non-empty,
\* then for each added turn in conversation order one Content chunk for an
\* assistant text turn, one ToolCall chunk for each call of a tool-call
\* turn, one ToolResult chunk for a tool-result turn, then one Done chunk;
\* after a loop that returned an error: one Error chunk and nothing else.
C20_ReplayOrder ==
    /\ (Replaying /\ cpc # "done") => Emitted = <<>>
    /\ (Replayed /\ chatErr = NoErr) =>
          /\ FramedByReasoningAndDone
          /\ TurnPart = TurnsChunks(AddedTurns)
          /\ \A k \in 1..Len(AddedTurns) :
                AddedTurns[k].type = "text" => AddedTurns[k].Role = "assistant"
    /\ (Replayed /\ chatErr # NoErr) => Emitted = <<ErrorChunk(chatErr)>>

\* a replay with reasoning, a tool-call turn of two calls, their results
\* and the final text, all sent
C20_Witness ==
    /\ Replaying
    /\ spc = "exited"
    /\ chatErr = NoErr
    /\ HasReasoning
    /\ \E k \in 1..Len(AddedTurns) :
          IF AddedTurns[k].type = "tool_call" THEN Len(AddedTurns[k].ToolCalls) = 2 ELSE FALSE
    /\ Len(ChunksOf(Emitted, "tool_result")) = 2
    /\ Len(ChunksOf(Emitted, "content")) = 1
    /\ Len(Emitted) = 7

(***************************************************************************)
(* Streaming and non-streaming call sites.                                 *)
(***************************************************************************)
\* the request names a tool or an output schema
Configured(p) == IF p.isNil THEN FALSE ELSE Len(p.Tools) > 0 \/ p.Output

\* ChatStream is over as far as the producer is concerned
StreamCallOver == mode = "ChatStream" /\ spc \in {"returned", "closing", "exited"}

\* the error Chat returns for this request: the pre-flight error when
\* validation fails, else the error of the loop
ErrorOfChat == IF spc = "returned" THEN streamErr ELSE chatErr

EndsWithResultDone ==
    /\ Emitted # <<>>
    /\ Emitted[Len(Emitted)] =
          DoneChunk(chatResult.FinishReason, chatResult.Reasoning, chatResult.Usage)
    /\ \A k \in 1..Len(Emitted) : Emitted[k].Type # "error"

\* C21 as stated: with a tool or a schema configured, the stream ends with
\* the Done chunk of Chat's result exactly when Chat returns a result, and is
\* the single Error chunk of Chat's error exactly when Chat returns an error.
C21_Original ==
    (StreamCallOver /\ Configured(params)) =>
        IF ErrorOfChat = NoErr
        THEN chatResult # NoResult /\ EndsWithResultDone
        ELSE Emitted = <<ErrorChunk(ErrorOfChat)>>

\* C21: when ChatStream has returned a channel and replays Chat, the stream
\* ends with Done, carrying the result's finish reason, reasoning and
\* usage, exactly when Chat returned a result, and is the single Error chunk
\* of Chat's error exactly when Chat returned an error; when pre-flight
\* validation fails ChatStream returns that error itself, without a channel,
\* a chunk, a transport call or a handler run.
C21_ReplayAgrees ==
    /\ Replayed =>
          IF chatErr = NoErr
          THEN chatResult # NoResult /\ EndsWithResultDone
          ELSE chatResult = NoResult /\ Emitted = <<ErrorChunk(chatErr)>>
    /\ (mode = "ChatStream" /\ spc = "returned") =>
          /\ streamErr # NoErr
          /\ ~chanMade
          /\ Emitted = <<>>
          /\ transportCalls = 0
          /\ loc.log = <<>>

\* a replay in which a handler ran and the result carries usage
C21_Witness ==
    /\ Replayed
    /\ spc = "exited"
    /\ chatErr = NoErr
    /\ Len(loc.log) >= 1
    /\ chatResult.Usage # NoUsage
    /\ Emitted[Len(Emitted)].Usage = chatResult.Usage

(***************************************************************************)
(* Failures of a stream.                                                   *)
(***************************************************************************)
ProducerDone == spc \in {"closing", "exited"}
LastFrame == framesRead[Len(framesRead)]
LastEmitted == Emitted[Len(Emitted)]
\* an undecodable payload, or the error event that only claude's stream has
FailingFrame(f) == f.kind = "bad" \/ (backend = "claude" /\ f.kind = "error")

\* C22: ChatStream returns an error only for a pre-flight failure, and then
\* there is no channel, no producer and no transport call; once a channel
\* has been returned the call's error stays nil and every failure (of the
\* connection, of a frame's decoding, of the read, of the backend's error
\* event, of the replayed Chat call) is the Error chunk that ends the stream.
C22_ErrorsBecomeChunks ==
    /\ (mode = "ChatStream" /\ streamErr # NoErr) =>
          /\ streamErr.kind \in ConfigErrorKinds
          /\ spc = "returned"
          /\ ~chanMade
          /\ transportCalls = 0
          /\ cpc = "idle"
          /\ Emitted = <<>>
    /\ chanMade => streamErr = NoErr
    /\ (chanMade /\ ProducerDone /\ chatErr # NoErr) => Emitted = <<ErrorChunk(chatErr)>>
    /\ (chanMade /\ framesRead # <<>>) =>
          (FailingFrame(LastFrame) =>
              /\ ProducerDone
              /\ LastEmitted.Type = "error"
              /\ LastEmitted.Error.kind = (IF LastFrame.kind = "bad" THEN "decode" ELSE "stream"))
    /\ (chanMade /\ ProducerDone) => EndsWithTerminal(Emitted)

\* the connection failed after the channel was returned
C22_Witness ==
    /\ chanMade
    /\ streamErr = NoErr
    /\ spc = "exited"
    /\ transportCalls = 1
    /\ framesRead = <<>>
    /\ Emitted = <<ErrorChunk(Err("transport", "stream request failed"))>>

\* the chunks the scanner loop sends for a run of frames, from the locals cur
RECURSIVE FrameChunks(_, _, _)
FrameChunks(b, cur, fs) ==
    IF fs = <<>> THEN <<>>
    ELSE LET o == liveFrame(b, cur, Head(fs))
         IN  o.chunks \o (IF o.stop THEN <<>> ELSE FrameChunks(b, o.live, Tail(fs)))

LiveStream == chanMade /\ ~simulated(params)
EarlierFrames == SubSeq(framesRead, 1, Len(framesRead) - 1)
DecodeError == ErrorChunk(Err("decode", "stream event"))
ReadError == ErrorChunk(Err("read", "stream read failed"))
OnlyLastTerminal(cs) == \A k \in 1..(Len(cs) - 1) : ~IsTerminalChunk(cs[k])

\* C23: a frame that cannot be decoded, or a read failure, in the middle of
\* a live stream leaves the earlier output alone: the stream is the chunks
\* of the frames read before, in order, then one Error chunk, and no Done.
C23_EarlierOutputKept ==
    LiveStream =>
        /\ (framesRead # <<>> /\ LastFrame.kind = "bad") =>
              /\ Emitted = FrameChunks(backend, NoLive, EarlierFrames) \o <<DecodeError>>
              /\ OnlyLastTerminal(Emitted)
        /\ (ProducerDone /\ LastEmitted = ReadError) =>
              /\ Emitted = FrameChunks(backend, NoLive, framesRead) \o <<ReadError>>
              /\ OnlyLastTerminal(Emitted)

\* the caller has received a content chunk and then the decode error
C23_Witness ==
    /\ LiveStream
    /\ Len(framesRead) = 2
    /\ framesRead[1].kind = "delta" /\ framesRead[1].Text # <<>>
    /\ LastFrame.kind = "bad"
    /\ consumer = "done"
    /\ Len(received) >= 2
    /\ received[1].Type = "content"
    /\ received[Len(received)] = DecodeError

(***************************************************************************)
(* Cancellation of a stream.                                               *)
(***************************************************************************)
\* the backend's whole answer was taken: the end marker was read, or the
\* replayed Chat call had completed
WholeOutput ==
    IF simulated(params) THEN chatErr = NoErr /\ chatResult # NoResult
    ELSE framesRead # <<>> /\ LastFrame.kind = "end"

CancelledEnd ==
    /\ EndsWithTerminal(Sent)
    /\ Sent[Len(Sent)].Type = "done" => WholeOutput

\* C24: once ctx is cancelled while the producer runs, the stream gets its
\* terminal chunk: an Error chunk, or a Done chunk only when the backend's
\* whole answer had been taken; it is never left without a terminal chunk.
C24_CancelledStreamEnds == (chanMade /\ ctx) ~> CancelledEnd

\* ctx is cancelled, the caller has stopped receiving, and the producer
\* waits in a send with no terminal chunk in the channel
C24_CancelledNeverEnds ==
    /\ chanMade
    /\ ctx
    /\ spc = "scan"
    /\ consumer = "abandoned"
    /\ Len(out) = StreamBuffer
    /\ sendq # <<>>
    /\ ~EndsWithTerminal(Sent \o sendq)

(***************************************************************************)
(* Usage of a live stream.                                                 *)
(***************************************************************************)
UsageOf(u) == [kind |-> "usage", PromptTokens |-> u.input, CompletionTokens |-> u.output,
               TotalTokens |-> u.input + u.output]

\* the token counts of the last frame of fs that carried any
RECURSIVE LatestUsage(_)
LatestUsage(fs) ==
    IF fs = <<>> THEN NoUsage
    ELSE IF fs[Len(fs)].Usage.present THEN UsageOf(fs[Len(fs)].Usage)
    ELSE LatestUsage(SubSeq(fs, 1, Len(fs) - 1))

EndedWithDone == LiveStream /\ Emitted # <<>> /\ LastEmitted.Type = "done"

\* C25: the Done chunk of a live stream carries the token counts of the
\* most recent frame that carried any: a later report replaces an earlier
\* one, and a later frame without counts leaves the earlier report in place.
C25_LatestUsageKept == EndedWithDone => LastEmitted.Usage = LatestUsage(framesRead)

\* a frame reported token counts, a later frame did not, and the Done chunk
\* carries no usage
C25_UsageErased ==
    /\ EndedWithDone
    /\ backend = "ollama"
    /\ Len(framesRead) = 2
    /\ framesRead[1].Usage = WireUsage(1, 1)
    /\ ~framesRead[2].Usage.present
    /\ LastEmitted.Usage = NoUsage

(***************************************************************************)
(* The end of a live stream.                                               *)
(***************************************************************************)
\* C26: the backend's end marker ends a live stream although the body has
\* more to give: no frame is read after it, the producer has stopped, and
\* the stream holds exactly one Done chunk, its last; a stream that ended
\* with Done for any reason holds no other terminal chunk.
C26_EndMarkerEndsStream ==
    LiveStream =>
        /\ \A k \in 1..Len(framesRead) : framesRead[k].kind = "end" => k = Len(framesRead)
        /\ (framesRead # <<>> /\ LastFrame.kind = "end") =>
              /\ ProducerDone
              /\ LastEmitted.Type = "done"
              /\ OnlyLastTerminal(Emitted)
        /\ (ProducerDone /\ LastEmitted.Type = "done") => OnlyLastTerminal(Emitted)

\* the end marker was read with the body still open, and the caller has
\* received the stream up to its Done chunk
C26_Witness ==
    /\ LiveStream
    /\ Len(framesRead) = 1
    /\ LastFrame.kind = "end"
    /\ framesLeft > 0
    /\ closed
    /\ consumer = "done"
    /\ received # <<>>
    /\ received[Len(received)].Type = "done"

(***************************************************************************)
(* The channel between producer and consumer.                              *)
(***************************************************************************)
BufferFull == Len(out) = StreamBuffer
ProducerWaits == BufferFull /\ sendq # <<>>

\* C27: the channel never holds more than 64 chunks; a producer with a
\* chunk to send into the full channel takes no step until the consumer
\* has received one; and the chunks received, buffered and waiting to be
\* sent are always the chunks produced so far, in the order produced.
C27_BoundedQueueInOrder ==
    /\ [](Len(out) <= StreamBuffer)
    /\ [][ProducerWaits => (spc' = spc /\ sendq' = sendq /\ framesRead' = framesRead
                            /\ Len(out') <= Len(out))]_vars
    /\ [][HasPrefix(Emitted', Emitted)]_vars

\* the producer waits on the full channel while the consumer, who has
\* received chunks already, is still receiving
C27_Witness ==
    /\ ProducerWaits
    /\ consumer = "receiving"
    /\ received # <<>>
    /\ ~closed

(***************************************************************************)
(* The ids of tool calls.                                                  *)
(***************************************************************************)
\* the calls of an assistant turn as the caller should see them
WithIDs(wire) ==
    [n \in 1..Len(wire) |-> [wire[n] EXCEPT !.ID = IF TrimSpace(@) = "" THEN SynthID(n) ELSE @]]

CallsOfTurns(ms) ==
    {ms[k].ToolCalls[n] : <<k, n>> \in
        {kn \in (1..Len(ms)) \X (1..MaxCalls) :
            ms[kn[1]].type = "tool_call" /\ kn[2] <= Len(ms[kn[1]].ToolCalls)}}

\* the calls handed to the caller: in the result's messages, among its
\* pending calls, and in the ToolCall chunks of the stream
HandedCalls ==
    (IF chatResult = NoResult THEN {}
     ELSE CallsOfTurns(chatResult.Messages)
            \cup {chatResult.ToolCalls[n] : n \in 1..Len(chatResult.ToolCalls)})
    \cup {Emitted[k].ToolCall : k \in {j \in 1..Len(Emitted) : Emitted[j].Type = "tool_call"}}

AnsweredWithCalls ==
    /\ chatResult # NoResult
    /\ lastResp.kind = "message"
    /\ Len(lastResp.ToolCalls) > 0

\* C28: every tool call handed to the caller has an id; a call the backend
\* sent without one is handed over as call_<n>, n its position in its turn.
C28_EveryCallHasID ==
    /\ \A c \in HandedCalls : c.ID # ""
    /\ AnsweredWithCalls =>
          \E k \in 1..Len(chatResult.Messages) :
              chatResult.Messages[k] = ToolCallTurn(WithIDs(lastResp.ToolCalls))

\* a call the backend sent without an id is among the result's pending
\* calls with its id empty
C28_CallWithoutID ==
    /\ AnsweredWithCalls
    /\ backend # "ollama"
    /\ \E n \in 1..Len(chatResult.ToolCalls) : chatResult.ToolCalls[n].ID = ""

(***************************************************************************)
(* The Adapter shared by invocations.                                      *)
(***************************************************************************)
\* C29: an invocation writes nothing another invocation on the same
\* adapter reads: no step of Chat or ChatStream changes a field of the
\* Adapter.
C29_AdapterNeverWritten == [][adapter' = adapter]_vars

\* a Chat call that began with a blank APIKey has completed and has left
\* the key it read from the environment in the Adapter
C29_AdapterWritten ==
    /\ mode = "Chat"
    /\ cpc = "done"
    /\ chatResult # NoResult
    /\ adapter.APIKey = "k"

(***************************************************************************)
(* The raw-JSON fallback of the openai decode.                             *)
(***************************************************************************)
TypedText == IF decoded.path = "Chat" THEN parseAssistantChoice(choice)
             ELSE parseStreamChoiceText(choice)
TypedReasoning == IF decoded.path = "Chat" THEN parseAssistantChoiceReasoning(choice)
                  ELSE parseStreamChoiceReasoning(choice)

\* C30: the raw walk is consulted for the text only when the typed decode
\* gave none, and for the reasoning only when the typed decode gave none;
\* text the typed decode gave is returned or emitted as it is, and so is
\* its reasoning.
C30_TypedResultStands ==
    decoded # NoDecoded =>
        /\ decoded.rawText => (TypedText.err = NoErr /\ TrimText(TypedText.text) = <<>>)
        /\ decoded.rawReasoning => TypedReasoning = <<>>
        /\ (choice.Decodable /\ TrimText(choice.Content) # <<>>) =>
              (decoded.err = NoErr /\ decoded.text = choice.Content /\ ~decoded.rawText)
        /\ (TypedText.err = NoErr /\ TypedText.text # <<>>) => decoded.text = TypedText.text
        /\ TypedReasoning # <<>> => decoded.reasoning = TypedReasoning

\* Chat returned the typed text, outer space and all, although the raw
\* walk would have found another text
C30_Witness ==
    /\ decoded # NoDecoded
    /\ decoded.path = "Chat"
    /\ choice.Content = <<" ", "t">>
    /\ rawChoice.present
    /\ rawChoice.text = <<"r">>
    /\ decoded.text = <<" ", "t">>
    /\ ~decoded.rawText

(***************************************************************************)
(* A Chat call without tools.                                              *)
(***************************************************************************)
ToolFree(p) == IF p.isNil THEN TRUE ELSE Len(p.Tools) = 0

\* the backend answered with an assistant text the adapter can decode
AnsweredWithText ==
    /\ lastResp.kind = "message"
    /\ Len(lastResp.ToolCalls) = 0
    /\ lastResp.Decodable

\* C31: a Chat call without tools whose one transport call was answered
\* with a text returns a result with no pending calls, the backend's finish
\* reason ("stop" when it gave none) and, as messages, the input messages
\* followed by one assistant text turn that holds the result's text.
C31_ToolFreeResult ==
    (mode = "Chat" /\ ToolFree(params)) =>
        /\ (cpc = "done" /\ transportCalls = 1 /\ AnsweredWithText) => chatResult # NoResult
        /\ chatResult # NoResult =>
              /\ transportCalls = 1
              /\ AnsweredWithText
              /\ chatResult.ToolCalls = <<>>
              /\ chatResult.FinishReason =
                    (IF lastResp.FinishReason = "" THEN "stop" ELSE lastResp.FinishReason)
              /\ chatResult.Text = lastResp.Content
              /\ Len(chatResult.Messages) = Len(params.Messages) + 1
              /\ chatResult.Messages = params.Messages \o <<AssistantText(chatResult.Text)>>

\* the backend gave a text and no finish reason
C31_Witness ==
    /\ mode = "Chat"
    /\ ToolFree(params)
    /\ chatResult # NoResult
    /\ lastResp.FinishReason = ""
    /\ chatResult.FinishReason = "stop"
    /\ chatResult.Text = <<"t">>
    /\ Len(chatResult.Messages) = 2

\* the one media part of the request
ThePart == params.Messages[1].Parts[1]
DataPrefixed == HasDataPrefix(ThePart.Data)
ValidationFailed ==
    IF mode = "Chat" THEN cpc = "done" /\ chatErr # NoErr /\ chatErr.kind = "message"
    ELSE spc = "returned" /\ streamErr # NoErr /\ streamErr.kind = "message"
CallStarted == IF mode = "Chat" THEN cpc # "start" ELSE spc # "start"

\* C32: a message part whose inline data starts with "data:" makes Chat and
\* ChatStream fail with a validation error before any transport call, in every
\* backend adapter: once the call has started it has failed, no request was
\* sent and no stream channel was made.
C32_DataPrefixRejected ==
    DataPrefixed => /\ transportCalls = 0
                    /\ ~chanMade
                    /\ CallStarted => ValidationFailed

\* a data:-prefixed part that the adapter let through to the backend
C32_DataPrefixSent ==
    /\ DataPrefixed
    /\ transportCalls = 1
    /\ backend = "claude"
    /\ ThePart.kind = "image"

\* recorded reasoning parts: none blank, no two neighbours equal
CleanParts(parts) ==
    /\ \A k \in 1..Len(parts) : TrimText(parts[k]) # <<>>
    /\ \A k \in 1..(Len(parts) - 1) : parts[k] # parts[k + 1]

\* the reasoning fragment a live frame hands to appendReasoningPart
FrameFragment(f) ==
    IF backend = "claude"
    THEN TrimText(IF TrimText(f.Thinking) = <<>> THEN f.Text ELSE TrimText(f.Thinking))
    ELSE f.Thinking
AppendsReasoning(f) ==
    \/ backend = "openai" /\ f.kind = "delta"
    \/ backend = "claude" /\ f.kind = "thinking"
Dropped(parts, fragment) ==
    \/ TrimText(fragment) = <<>>
    \/ Len(parts) > 0 /\ parts[Len(parts)] = TrimText(fragment)

\* a frame whose fragment is dropped leaves the parts alone and queues no
\* Reasoning chunk; a round whose reasoning is dropped leaves them alone too
DroppedFragmentStep ==
    /\ (Len(framesRead') = Len(framesRead) + 1 /\ AppendsReasoning(LastFrame')
          /\ Dropped(live.reasoningParts, FrameFragment(LastFrame')))
        => /\ live'.reasoningParts = live.reasoningParts
           /\ \A k \in 1..Len(sendq') : sendq'[k].Type # "reasoning"
    /\ (transportCalls' = transportCalls + 1 /\ cpc = "loop" /\ lastResp'.kind = "message"
          /\ Dropped(loc.reasoningParts, lastResp'.Thinking))
        => loc'.reasoningParts = loc.reasoningParts

FrameTexts == [k \in 1..Len(framesRead) |-> framesRead[k].Text]
EmittedContent == ChunksOf(Emitted, "content")
LastContent == EmittedContent[Len(EmittedContent)].Content

\* C34: in live streaming, without tools or schema, the cumulative content of
\* the last Content chunk equals the in-order concatenation of the text
\* fragments of all backend frames received before the terminal chunk: no
\* fragment, a whitespace-only one or a prefix of the accumulated text
\* included, is dropped, duplicated or altered.
C34_AllFragmentsKept ==
    (EndedWithDone /\ Concat(FrameTexts) # <<>>) =>
        /\ EmittedContent # <<>>
        /\ LastContent = Concat(FrameTexts)

\* the blank between two words was lost on openai: "t", " ", "u" arrived,
\* the stream says "tu"
C34_BlankLost ==
    /\ backend = "openai"
    /\ EndedWithDone
    /\ FrameTexts = << <<"t">>, <<" ">>, <<"u">> >>
    /\ LastContent = <<"t", "u">>

\* the tool-call turn a round has added to the conversation, if any
NewTurns == SubSeq(loc'.conversation, Len(loc.conversation) + 1, Len(loc'.conversation))
NewCalls ==
    LET t == SelectSeq(NewTurns, IsToolCallTurn)
    IN  IF Len(t) = 0 THEN <<>> ELSE t[1].ToolCalls
FirstUnregistered(calls) ==
    IF \A k \in 1..Len(calls) : Registered(calls[k]) THEN Len(calls) + 1
    ELSE CHOOSE k \in 1..Len(calls) :
            ~Registered(calls[k]) /\ \A j \in 1..(k - 1) : Registered(calls[j])
InvocationsOf(calls) ==
    LET srv == SelectSeq(calls, IsServerCall)
    IN  [k \in 1..Len(srv) |-> [Name |-> srv[k].Name, Arguments |-> srv[k].Arguments]]

\* one round: the handlers that ran are those of the server calls listed
\* before the first unregistered call, once each and in the listed order
HandledInOrder ==
    (cpc = "loop" /\ transportCalls' = transportCalls + 1) =>
        LET n == FirstUnregistered(NewCalls)
        IN  /\ loc'.log = loc.log \o InvocationsOf(SubSeq(NewCalls, 1, n - 1))
            /\ n <= Len(NewCalls) =>
                  /\ cpc' = "done"
                  /\ chatErr'.kind = "unregistered"
                  /\ chatResult' = NoResult

\* C35: within one assistant turn the tool calls are handled strictly in the
\* order the backend listed them, and an unregistered call aborts at that
\* point: the handlers of the server calls listed before it have run exactly
\* once, the handlers of the calls after it never run, and Chat returns only
\* the error, none of the conversation built so far.
C35_OrderedUntilUnregistered == [][HandledInOrder]_vars

\* a server call, then an unregistered one: one handler ran, then the error
C35_Witness ==
    /\ cpc = "done"
    /\ chatErr.kind = "unregistered"
    /\ chatResult = NoResult
    /\ Len(loc.log) = 1
    /\ LET m == loc.conversation
           k == LastToolCallTurn(m)
       IN  /\ Len(m[k].ToolCalls) = 2
           /\ IsServerCall(m[k].ToolCalls[1])
           /\ ~Registered(m[k].ToolCalls[2])
           /\ loc.log[1].Name = m[k].ToolCalls[1].Name

\* the calls of all tool-call turns of ms, in order
RECURSIVE TurnCalls(_)
TurnCalls(ms) ==
    IF ms = <<>> THEN <<>>
    ELSE (IF IsToolCallTurn(Head(ms)) THEN Head(ms).ToolCalls ELSE <<>>) \o TurnCalls(Tail(ms))

\* C36: in every Chat invocation that returns a result, each server-tool
\* call the backend returned caused exactly one handler invocation with that
\* call's arguments, server calls listed after a client call in the turn that
\* ends in hand-off included, and no client-tool call caused one: the
\* invocations are the server calls of the result's tool-call turns.
C36_ServerCallsRunOnce ==
    (mode = "Chat" /\ chatResult # NoResult) =>
        /\ loc.log = InvocationsOf(TurnCalls(chatResult.Messages))
        /\ \A k \in 1..Len(loc.log) : loc.log[k].Name \notin tools.client

\* hand-off in a turn [client call, server call]: the server call ran
C36_Witness ==
    /\ mode = "Chat"
    /\ chatResult # NoResult
    /\ Len(chatResult.ToolCalls) = 1
    /\ LET calls == TurnCalls(chatResult.Messages)
       IN  /\ Len(calls) = 2
           /\ IsClientCall(calls[1])
           /\ IsServerCall(calls[2])
           /\ loc.log = <<[Name |-> calls[2].Name, Arguments |-> calls[2].Arguments]>>

\* the tool-call turn that opens the round a turn at index r belongs to
RoundOf(m, r) ==
    CHOOSE k \in 0..(r - 1) :
        /\ k > 0 => IsToolCallTurn(m[k])
        /\ \A j \in (k + 1)..(r - 1) : ~IsToolCallTurn(m[j])
        /\ k = 0 => \A j \in 1..(r - 1) : ~IsToolCallTurn(m[j])

\* C37: in every returned ChatResult.messages each tool-result turn added by
\* the loop comes after the tool-call turn of its own round and before any
\* turn of a later round, carries the id and the name of a server call of
\* that tool-call turn, and the result turns of a round stand in the order of
\* their calls: the turns after a tool-call turn are the results of its
\* server calls, one each, in order.
C37_ResultsFollowTheirCalls ==
    chatResult # NoResult =>
        LET m == chatResult.Messages
        IN  /\ \A k \in 1..Len(m) :
                  IsToolCallTurn(m[k]) =>
                      LET srv == SelectSeq(m[k].ToolCalls, IsServerCall)
                      IN  \A j \in 1..Len(srv) :
                            /\ k + j <= Len(m)
                            /\ IsToolResultTurn(m[k + j])
                            /\ m[k + j].ToolCallID = srv[j].ID
                            /\ m[k + j].Name = srv[j].Name
            /\ \A r \in (InputLen + 1)..Len(m) :
                  IsToolResultTurn(m[r]) =>
                      LET k == RoundOf(m, r)
                      IN  /\ k > InputLen
                          /\ r - k <= Len(SelectSeq(m[k].ToolCalls, IsServerCall))

\* a round of two server calls, "a" then "b", and their two results
C37_Witness ==
    /\ chatResult # NoResult
    /\ \E k \in 1..Len(chatResult.Messages) :
          LET m == chatResult.Messages
          IN  /\ IsToolCallTurn(m[k])
              /\ Len(m[k].ToolCalls) = 2
              /\ Len(m) >= k + 2
              /\ IsToolResultTurn(m[k + 1]) /\ m[k + 1].Name = "a"
              /\ IsToolResultTurn(m[k + 2]) /\ m[k + 2].Name = "b"

\* C38: within one returned ChatResult.messages the ids of all tool calls
\* added by the loop, over all rounds, are pairwise distinct, so that the
\* toolCallId of every tool-result turn identifies exactly one call.
C38_CallIdsDistinct ==
    chatResult # NoResult =>
        LET calls == TurnCalls(chatResult.Messages)
        IN  \A j, k \in 1..Len(calls) : j # k => calls[j].ID # calls[k].ID

\* ollama: the calls of two rounds both got the synthesized id call_1
C38_SynthesizedIdRepeats ==
    /\ backend = "ollama"
    /\ chatResult # NoResult
    /\ transportCalls = 2
    /\ LET calls == TurnCalls(chatResult.Messages)
       IN  /\ Len(calls) = 2
           /\ calls[1].ID = SynthID(1)
           /\ calls[2].ID = SynthID(1)
           /\ \E r \in 1..Len(chatResult.Messages) :
                 /\ IsToolResultTurn(chatResult.Messages[r])
                 /\ chatResult.Messages[r].ToolCallID = SynthID(1)

\* a turn the loop generates: assistant text, tool calls, or a tool result
GeneratedTurn(t) ==
    \/ t.type = "text" /\ t.Role = "assistant"
    \/ IsToolCallTurn(t)
    \/ IsToolResultTurn(t)

ResultExtendsInput ==
    (mode = "Chat" /\ chatResult # NoResult) =>
        LET m == chatResult.Messages
            n == Len(params.Messages)
        IN  /\ Len(m) > n
            /\ \A k \in 1..n : m[k] = params.Messages[k]
            /\ \A k \in (n + 1)..Len(m) : GeneratedTurn(m[k])
            /\ m = loc.conversation

\* C39: Chat never modifies the caller's params.Messages, neither its length
\* nor its elements; the returned ChatResult.messages is a sequence of its
\* own whose first len(params.Messages) elements are the input messages in
\* order, followed only by turns generated during this invocation.
C39_InputKeptAndExtended ==
    /\ [][params' = params]_vars
    /\ []ResultExtendsInput

\* a result after one tool round: the input message, then three new turns
C39_Witness ==
    /\ mode = "Chat"
    /\ chatResult # NoResult
    /\ transportCalls = 2
    /\ chatResult.Messages[1] = params.Messages[1]
    /\ Len(chatResult.Messages) = Len(params.Messages) + 3
    /\ chatResult.Messages[Len(chatResult.Messages)].type = "text"

\* C40: the defensive text extractor is deterministic: for every decoded
\* JSON value two calls of extractTextFromAny on that same value return the
\* same string, also for an object that has no non-empty priority key and
\* two or more non-ignored keys holding text.
C40_ExtractorDeterministic ==
    Len(decoded.results) >= 2 => decoded.results[1] = decoded.results[2]

\* the object {"a": "x", "b": "y"} read as "x" by one call and "y" by the next
C40_TwoAnswers ==
    /\ rawChoice = JMap([k \in {"a", "b"} |-> IF k = "a" THEN JString(<<"x">>) ELSE JString(<<"y">>)])
    /\ decoded.results = << <<"x">>, <<"y">> >>

====
